---- MODULE Spec2Model ----
(***************************************************************************)
(* Market-data acquisition pipeline of backend/crypto_service.py:          *)
(* the TTL cache (_cache_get/_cache_set), the retrying fetch of one page,  *)
(* the paginating aggregation of fetch_coins_from_coingecko and the        *)
(* single-page fetch_coins_from_coingecko_paginated.                       *)
(*                                                                         *)
(* In every specification but SpecConc one call runs at a time.  A call    *)
(* is a sequence of steps: the entry                                       *)
(* (validation and cache lookup), then one step per upstream HTTP attempt, *)
(* each step including the sleeps and the processing the code performs     *)
(* before the next attempt.  The upstream answers each attempt             *)
(* independently: a page of n records, HTTP 429, another HTTP error        *)
(* status, or a network-level failure.                                     *)
(*                                                                         *)
(* Python lists are objects: the cache and the caller may hold the same    *)
(* list.  heap maps object identities to list contents; cache entries and  *)
(* returned values are references into heap.                               *)
(*                                                                         *)
(* Spec and SpecOwn run the two fetch functions of crypto_service.py.      *)
(* SpecApi runs the handlers of backend/main.py, GET /cryptos and          *)
(* GET /cryptos/top/{limit}, with the fetch functions main.py defines.     *)
(* SpecNorm applies transform_coin_data to one raw record.                 *)
(* SpecConc runs the fetch functions of crypto_service.py on two threads,  *)
(* a step per access to _cache.  SpecLive is Spec without the time between *)
(* calls and with a call in progress running on.                           *)
(* SpecEq runs a fetch function of crypto_service.py on the empty cache    *)
(* and then main.py's function of the same name on the same upstream       *)
(* answers.  SpecPaging serves one GET /cryptos request, for pages around  *)
(* the first and the last.                                                 *)
(***************************************************************************)
EXTENDS Integers, Sequences, FiniteSets, TLC

VARIABLES
    now,        \* time.time(), in whole seconds
    cache,      \* _cache: key -> [ts, ref]
    heap,       \* list objects: ref -> sequence of raw records
    pc,         \* "idle" | "attempting" | "done"
    call,       \* the call in progress or last completed
    page,       \* fetch_top: local variable page
    attempt,    \* loop variable of "for attempt in range(max_retries)"
    all_coins,  \* fetch_top: local list all_coins
    ret,        \* what the last call returned or raised
    log,        \* upstream requests and sleeps of the current call, in order
    stored,     \* key -> list contents handed to _cache_set (history)
    fetched,    \* page key -> the last successful upstream fetch (history)
    events,     \* calls, retried upstream failures, time steps so far
    req,        \* main.py: the HTTP request being handled or handled last
    raw_coins,  \* main.py: what the handler's fetch returned
    resp,       \* main.py: the HTTP response
    raw,        \* transform_coin_data: its argument coin_data
    coin,       \* transform_coin_data: its result
    thr,        \* concurrent callers: thread -> its position and locals
    ops,        \* concurrent callers: the writes to _cache, in order (history)
    svc         \* comparison: the crypto_service.py call main.py's is set against

vars == <<now, cache, heap, pc, call, page, attempt, all_coins, ret, log,
          stored, fetched, events, req, raw_coins, resp, raw, coin, thr, ops,
          svc>>

\* The state of main.py's handlers, of a single normalization and of the
\* concurrent callers.
extVars == <<req, raw_coins, resp, raw, coin, thr, ops, svc>>

-----------------------------------------------------------------------------
(* Configuration.  crypto_service.py reads these from the environment; the  *)
(* time settings keep their defaults, the two sizes are set small.          *)

\* COINGECKO_PER_PAGE (default 250)
PER_PAGE == 2
\* COINGECKO_MAX_COINS (default 1000)
MAX_COINS == 3
\* COINGECKO_RETRY_DELAY
RETRY_DELAY == 15
\* COINGECKO_REQUEST_DELAY
REQUEST_DELAY == 5
\* CRYPTO_CACHE_TTL
CRYPTO_CACHE_TTL == 60
\* max_retries = 3
max_retries == 3
\* time.sleep(5) after a network-level failure
NETWORK_RETRY_DELAY == 5
\* "per_page < 1 or per_page > 250"
MAX_PER_PAGE == 250

(* Bounds of the exploration. *)
\* Calls, retryable upstream failures, time steps and caller mutations in
\* one run, all together.
MaxEvents == 4
\* The longest page the upstream answers with.
MaxPageLen == 4

\* Arguments <<page, per_page>> callers pass to
\* fetch_coins_from_coingecko_paginated: one for each clause of the validation,
\* and valid ones on and off its limits.
PageRequests ==
    {<<0, PER_PAGE>>, <<1, 0>>, <<1, MAX_PER_PAGE + 1>>,
     <<1, MAX_PER_PAGE>>, <<2, PER_PAGE>>}

\* HTTP error statuses other than 429 the upstream answers with.
OtherStatuses == {404, 500}

\* Numbers of records the upstream puts in one page when asked for q.
RespSizes(q) == {n \in {0, 1, q, 2 * q} : n <= MaxPageLen}

\* Time that passes between two calls.
TickSteps == {CRYPTO_CACHE_TTL, CRYPTO_CACHE_TTL + 1}

-----------------------------------------------------------------------------
(* Values *)

NoFetch == [at |-> -1, n |-> 0, first |-> FALSE]
NoKey == ""

NoRet == [kind |-> "none", status |-> 0, detail |-> "", ref |-> 0]
Returned(r) == [kind |-> "ok", status |-> 200, detail |-> "", ref |-> r]
\* raise HTTPException(status_code=s, detail=d)
HTTPException(s, d) == [kind |-> "err", status |-> s, detail |-> d, ref |-> 0]

NoCall == [kind |-> "none", page |-> 0, per_page |-> 0, key |-> NoKey,
           start |-> 0, cache0 |-> <<>>, looked |-> FALSE, prevFetch |-> NoFetch]

GetEvent(p, q, s, n) ==
    [ev |-> "get", page |-> p, per_page |-> q, status |-> s, n |-> n, secs |-> 0]
SleepEvent(p, s) ==
    [ev |-> "sleep", page |-> p, per_page |-> 0, status |-> 0, n |-> 0, secs |-> s]

\* The records of page p of the ranked listing, n of them, page size q.
UpstreamPage(p, q, n) == [i \in 1..n |-> (p - 1) * q + i]

\* f"top:{MAX_COINS}"
TopKey == "top:" \o ToString(MAX_COINS)
\* Mutant: the page size is left out of the key of a page.
PageKeyWithoutPerPage(p, q) == "page:" \o ToString(p)

\* f"page:{page}:per:{per_page}"
PageKey(p, q) == "page:" \o ToString(p) \o ":per:" \o ToString(q)

\* Threads of the server's pool calling the fetch functions at the same time.
Threads == {1, 2}

\* Calls the threads make: <<function, page, per_page>>, the aggregate fetch
\* and the fetch of a page.
ConcRequests == {<<"top", 0, 0>>, <<"page", 1, PER_PAGE>>}

\* Numbers of records the upstream puts in a page asked by a concurrent
\* caller.
ConcSizes == {0, PER_PAGE}

\* No cache entry: what "entry is None" leaves in a thread's locals.
NoEntry == [ts |-> 0, ref |-> 0]

\* A thread outside the fetch functions.
NoThread ==
    [pc |-> "idle", kind |-> "none", page |-> 0, per_page |-> 0, key |-> NoKey,
     get_now |-> 0, entry |-> NoEntry,
     top_page |-> 0, attempt |-> 0, all_coins |-> <<>>,
     wake |-> 0, set_ts |-> 0, ref |-> 0, ret |-> NoRet]

\* What a fetch function ended in: the list it returned or the HTTPException
\* it raised.
Outcome(kind, coins, status, detail) ==
    [kind |-> kind, coins |-> coins, status |-> status, detail |-> detail]
NoOutcome == Outcome("none", <<>>, 0, "")

\* No call recorded.
NoSvc ==
    [kind |-> "none", page |-> 0, per_page |-> 0, log |-> <<>>, out |-> NoOutcome]

\* A write to _cache by thread i: the key, the clock reading of the call it
\* rests on (of _cache_get for a pop, of _cache_set for a set) and the entry
\* removed or stored.
CacheOp(i, op, k, t, e) ==
    [th |-> i, op |-> op, key |-> k, at |-> t, entry |-> e]

-----------------------------------------------------------------------------
(* Raw records and the normalizer *)

\* A Python value that may be None; v is then a default of the value's type.
Some(v) == [null |-> FALSE, v |-> v]
None(v) == [null |-> TRUE, v |-> v]

\* A key of a raw record: absent, present with null, or present with a value.
Absent(v) == [st |-> "absent", v |-> v]
Null(v) == [st |-> "null", v |-> v]
Val(v) == [st |-> "val", v |-> v]

\* Mutant: the default is not passed, an absent key gives None.
DictGetNoDefault(d, k, dflt) ==
    IF d[k].st = "val" THEN Some(d[k].v) ELSE None(dflt.v)

\* dict.get(k, dflt): the default only for an absent key; a key present with
\* null gives None.
DictGet(d, k, dflt) ==
    IF d[k].st = "absent" THEN dflt
    ELSE IF d[k].st = "null" THEN None(dflt.v)
    ELSE Some(d[k].v)

\* Strings that get upper-cased are sequences of characters.
LowerChars == <<"b", "c", "e", "h", "t">>
UpperChars == <<"B", "C", "E", "H", "T">>
UpperChar(c) ==
    IF \E i \in 1..Len(LowerChars) : LowerChars[i] = c
    THEN UpperChars[CHOOSE i \in 1..Len(LowerChars) : LowerChars[i] = c]
    ELSE c

\* str.upper()
Upper(str) == [i \in 1..Len(str) |-> UpperChar(str[i])]

DigitChars == <<"0", "1", "2", "3", "4", "5", "6", "7", "8", "9">>
RECURSIVE Digits(_)
\* f"{idx}" as a sequence of characters
Digits(idx) ==
    IF idx < 10 THEN <<DigitChars[idx + 1]>>
    ELSE Digits(idx \div 10) \o <<DigitChars[(idx % 10) + 1]>>

\* The value of a CryptoCoin field that was never set.
NoCoin ==
    [rank |-> None(0), symbol |-> <<>>, id |-> "", name |-> "",
     price_usd |-> None(0), market_cap_usd |-> None(0),
     change_24h_pct |-> None(0), total_volume_usd |-> None(0),
     last_updated |-> None(""), image_url |-> None("")]

\* What a call of transform_coin_data gives: a coin, or the exception raised.
Coin(c) == [ok |-> TRUE, exc |-> "", coin |-> c]
Raised(e) == [ok |-> FALSE, exc |-> e, coin |-> NoCoin]
NoResult == [ok |-> FALSE, exc |-> "not called", coin |-> NoCoin]

\* models.CryptoCoin(**kw): symbol, id and name are "str" fields, None fails
\* their validation; the Optional fields take None.
CryptoCoin(kw) ==
    IF kw.symbol.null \/ kw.id.null \/ kw.name.null
    THEN Raised("ValidationError")
    ELSE Coin([kw EXCEPT !.symbol = kw.symbol.v, !.id = kw.id.v,
                         !.name = kw.name.v])

\* crypto_service.transform_coin_data(coin_data)
transform_coin_data(coin_data) ==
    LET symbol == DictGet(coin_data, "symbol", Some(<<>>))
    IN  IF symbol.null
        THEN Raised("AttributeError")  \* None has no upper()
        ELSE CryptoCoin(
                 [rank |-> DictGet(coin_data, "market_cap_rank", None(0)),
                  symbol |-> Some(Upper(symbol.v)),
                  id |-> DictGet(coin_data, "id", Some("")),
                  name |-> DictGet(coin_data, "name", Some("")),
                  price_usd |-> DictGet(coin_data, "current_price", None(0)),
                  market_cap_usd |-> DictGet(coin_data, "market_cap", None(0)),
                  change_24h_pct |->
                      DictGet(coin_data, "price_change_percentage_24h", None(0)),
                  total_volume_usd |-> DictGet(coin_data, "total_volume", None(0)),
                  last_updated |-> DictGet(coin_data, "last_updated", None("")),
                  image_url |-> DictGet(coin_data, "image", None(""))])

\* main.transform_coin_data(coin_data): main.py's CryptoCoin has no image_url
\* and "image" is not read.
main_transform_coin_data(coin_data) ==
    LET symbol == DictGet(coin_data, "symbol", Some(<<>>))
    IN  IF symbol.null
        THEN Raised("AttributeError")
        ELSE CryptoCoin(
                 [rank |-> DictGet(coin_data, "market_cap_rank", None(0)),
                  symbol |-> Some(Upper(symbol.v)),
                  id |-> DictGet(coin_data, "id", Some("")),
                  name |-> DictGet(coin_data, "name", Some("")),
                  price_usd |-> DictGet(coin_data, "current_price", None(0)),
                  market_cap_usd |-> DictGet(coin_data, "market_cap", None(0)),
                  change_24h_pct |->
                      DictGet(coin_data, "price_change_percentage_24h", None(0)),
                  total_volume_usd |-> DictGet(coin_data, "total_volume", None(0)),
                  last_updated |-> DictGet(coin_data, "last_updated", None("")),
                  image_url |-> None("")])

\* The record of rank idx in the upstream's listing, as the repository's
\* tests build it; it has no "image".
SampleCoin(idx) ==
    [market_cap_rank |-> Val(idx),
     symbol |-> Val(<<"C">> \o Digits(idx)),
     id |-> Val("coin-" \o ToString(idx)),
     name |-> Val("Coin " \o ToString(idx)),
     current_price |-> Val(100 + idx),
     market_cap |-> Val(1000000 * idx),
     price_change_percentage_24h |-> Val(1),
     total_volume |-> Val(10000 * idx),
     last_updated |-> Val("2025-01-01T00:00:00Z"),
     image |-> Absent("")]

\* Records the upstream may supply to the normalizer: symbol, id and name
\* each absent, null or a string; every other key absent or present, the rank
\* also null.
Symbols == {<<>>, <<"b", "t", "c">>, <<"E", "t", "h">>}
RawRecords ==
    [market_cap_rank : {Absent(0), Null(0), Val(1)},
     symbol : {Absent(<<>>), Null(<<>>)} \cup {Val(y) : y \in Symbols},
     id : {Absent(""), Null(""), Val("bitcoin")},
     name : {Absent(""), Null(""), Val("Bitcoin")},
     current_price : {Absent(0), Val(50000)},
     market_cap : {Absent(0), Val(900)},
     price_change_percentage_24h : {Absent(0), Val(-2)},
     total_volume : {Absent(0), Val(70)},
     last_updated : {Absent(""), Val("2025-01-01T00:00:00Z")},
     image : {Absent(""), Val("https://img/1.png")}]

-----------------------------------------------------------------------------
(* The cache and the heap *)

Put(f, k, v) == [x \in (DOMAIN f) \cup {k} |-> IF x = k THEN v ELSE f[x]]
\* Mutant: removing one key empties the mapping.
DropAll(f, k) == <<>>

Drop(f, k) == [x \in (DOMAIN f) \ {k} |-> f[x]]

\* Mutant: an entry as old as the TTL counts as expired.
ExpiredAtTtl(t, ts) == t - ts >= CRYPTO_CACHE_TTL

\* "now - ts > CRYPTO_CACHE_TTL"
Expired(t, ts) == t - ts > CRYPTO_CACHE_TTL

\* _cache_get: the reference returned, 0 for None
CacheGetRef(c, k, t) ==
    IF k \notin DOMAIN c THEN 0
    ELSE IF Expired(t, c[k].ts) THEN 0
    ELSE c[k].ref

\* Mutant: a hit renews the timestamp of the entry.
CacheAfterGetSliding(c, k, t) ==
    IF k \notin DOMAIN c THEN c
    ELSE IF Expired(t, c[k].ts) THEN Drop(c, k)
    ELSE Put(c, k, [ts |-> t, ref |-> c[k].ref])

\* Mutant: a stale entry is reported absent but left in the cache.
CacheAfterGetKeepsStale(c, k, t) == c

\* _cache_get: the cache it leaves behind
CacheAfterGet(c, k, t) ==
    IF k \in DOMAIN c /\ Expired(t, c[k].ts) THEN Drop(c, k) ELSE c

\* Mutant: a key that has an entry keeps it.
CacheAfterSetFirstWins(c, k, t, r) ==
    IF k \in DOMAIN c THEN c ELSE Put(c, k, [ts |-> t, ref |-> r])

\* _cache_set: _cache[key] = (time.time(), value)
CacheAfterSet(c, k, t, r) == Put(c, k, [ts |-> t, ref |-> r])

\* A fresh list object.
NewRef(h) == CHOOSE i \in 1..(Cardinality(DOMAIN h) + 1) : i \notin DOMAIN h

\* Lists no longer referenced by the cache or by the caller are collected.
Collect(h, c, r) ==
    LET live == {c[k].ref : k \in DOMAIN c} \cup {r.ref}
    IN  [i \in (DOMAIN h) \cap live |-> h[i]]

-----------------------------------------------------------------------------
(* main.py: requests and responses of the two endpoints *)

\* "if limit <= 0 or limit > 1000"
MAX_LIMIT == 1000
\* "estimated_total = 1000"
ESTIMATED_TOTAL == 1000

\* Mutant: only a negative limit is refused at the low end.
LimitValidFromZero(limit) == ~(limit < 0 \/ limit > MAX_LIMIT)

\* "if limit <= 0 or limit > 1000" does not hold
LimitValid(limit) == ~(limit <= 0 \/ limit > MAX_LIMIT)

\* The limits callers put in GET /cryptos/top/{limit}: on and off the ends of
\* the accepted range, and below the number of coins a fetch returns.
TopLimits == {0, 1, MAX_COINS - 1, MAX_LIMIT, MAX_LIMIT + 1}

\* What a request records of the top-N request handled right before it
\* (history): when it started, its limit and the coins its fetch returned.
NoPrevTop == [valid |-> FALSE, start |-> 0, limit |-> 0, coins |-> <<>>]

NoReq == [kind |-> "none", page |-> 0, per_page |-> 0, limit |-> 0, start |-> 0,
          prevTop |-> NoPrevTop]

NoResp ==
    [status |-> 0, detail |-> "", coins |-> <<>>, total_count |-> 0,
     last_updated |-> "", page |-> 0, per_page |-> 0, total_pages |-> 0,
     has_next |-> FALSE, has_prev |-> FALSE]

\* Mutant: whatever a handler raises is answered as the generic 500.
ErrorResponseGeneric(e) ==
    [NoResp EXCEPT !.status = 500, !.detail = "Internal server error"]

\* The response FastAPI builds from a raised HTTPException.
ErrorResponse(e) == [NoResp EXCEPT !.status = e.status, !.detail = e.detail]

\* "except Exception as e: raise HTTPException(status_code=500, ...)"
InternalServerError == HTTPException(500, "Internal server error")

\* The fields of main.py's CryptoResponse; none has a default.
CryptoResponseFields ==
    {"coins", "total_count", "last_updated", "page", "per_page",
     "total_pages", "has_next", "has_prev"}

\* main.CryptoResponse(**kwargs): a field that is not given fails the
\* validation; else the 200 response carrying the model.
CryptoResponse(kwargs) ==
    IF CryptoResponseFields \subseteq DOMAIN kwargs
    THEN [ok |-> TRUE,
          resp |-> [k \in DOMAIN NoResp |->
                       IF k \in DOMAIN kwargs THEN kwargs[k]
                       ELSE IF k = "status" THEN 200 ELSE NoResp[k]]]
    ELSE [ok |-> FALSE, resp |-> NoResp]

\* Mutant: the coins come out in the reverse of the fetched order.
TransformAllReversed(coins) ==
    [i \in 1..Len(coins) |->
        main_transform_coin_data(SampleCoin(coins[Len(coins) + 1 - i]))]

\* "[transform_coin_data(coin) for coin in coins]", each coin being the record
\* of that rank in the listing.
TransformAll(coins) ==
    [i \in 1..Len(coins) |-> main_transform_coin_data(SampleCoin(coins[i]))]

\* "max((coin.last_updated for coin in transformed_coins if coin.last_updated),
\* default="")"; the records of one listing carry one timestamp.
MostRecent(coins) ==
    LET given == {coins[i].last_updated.v : i \in
                    {j \in 1..Len(coins) : ~coins[j].last_updated.null
                                           /\ coins[j].last_updated.v # ""}}
    IN  IF given = {} THEN ""
        ELSE CHOOSE x \in given : \A y \in given : y = x

\* Mutant: the 404 for an empty result is gone, the empty list goes on.
IsEmptyNever(coins) == FALSE

\* "if not raw_coins"
IsEmpty(coins) == coins = <<>>

NoDataForPage ==
    HTTPException(404, "No cryptocurrency data found for the requested page")
NoData == HTTPException(404, "No cryptocurrency data found")

\* get_cryptos from the return of its fetch on: 404 for an empty page, else
\* transform, pagination metadata and the response model.
\* Mutant: the number of pages is rounded down.
TotalPagesRoundedDown(q) == ESTIMATED_TOTAL \div q

\* "total_pages = (estimated_total + per_page - 1) // per_page"
TotalPages(q) == (ESTIMATED_TOTAL + q - 1) \div q

GetCryptosRespond(p, q, coins) ==
    IF IsEmpty(coins) THEN ErrorResponse(NoDataForPage)
    ELSE LET transformed == TransformAll(coins)
         IN  IF \E i \in 1..Len(transformed) : ~transformed[i].ok
             THEN ErrorResponse(InternalServerError)
             ELSE LET transformed_coins ==
                          [i \in 1..Len(transformed) |-> transformed[i].coin]
                      total_pages == TotalPages(q)
                      model == CryptoResponse(
                          [coins |-> transformed_coins,
                           total_count |-> Len(transformed_coins),
                           last_updated |-> MostRecent(transformed_coins),
                           page |-> p, per_page |-> q,
                           total_pages |-> total_pages,
                           has_next |-> p < total_pages,
                           has_prev |-> p > 1])
                  IN  IF model.ok THEN model.resp
                      ELSE ErrorResponse(InternalServerError)

\* "raw_coins[:limit]"
LimitTo(coins, limit) ==
    IF Len(coins) > limit THEN SubSeq(coins, 1, limit) ELSE coins

\* get_top_cryptos from the return of its fetch on: 404 for no coins, else
\* slice, transform and the response model, built without the pagination
\* fields.
GetTopCryptosRespond(limit, coins) ==
    IF IsEmpty(coins) THEN ErrorResponse(NoData)
    ELSE LET transformed == TransformAll(LimitTo(coins, limit))
         IN  IF \E i \in 1..Len(transformed) : ~transformed[i].ok
             THEN ErrorResponse(InternalServerError)
             ELSE LET transformed_coins ==
                          [i \in 1..Len(transformed) |-> transformed[i].coin]
                      model == CryptoResponse(
                          [coins |-> transformed_coins,
                           total_count |-> Len(transformed_coins),
                           last_updated |-> MostRecent(transformed_coins)])
                  IN  IF model.ok THEN model.resp
                      ELSE ErrorResponse(InternalServerError)

-----------------------------------------------------------------------------
Init ==
    /\ now = 0
    /\ cache = <<>>
    /\ heap = <<>>
    /\ pc = "idle"
    /\ call = NoCall
    /\ page = 0
    /\ attempt = 0
    /\ all_coins = <<>>
    /\ ret = NoRet
    /\ log = <<>>
    /\ stored = <<>>
    /\ fetched = <<>>
    /\ events = 0
    /\ req = NoReq
    /\ raw_coins = <<>>
    /\ resp = NoResp
    /\ raw = SampleCoin(1)
    /\ coin = NoResult
    /\ thr = [i \in Threads |-> NoThread]
    /\ ops = <<>>
    /\ svc = NoSvc

-----------------------------------------------------------------------------
(* Helpers of the fetch functions *)

Idle == pc \in {"idle", "done"}

\* Mutant: the upper limit of per_page off by one.
PageArgsValidUpTo251(p, q) == ~(p < 1) /\ ~(q < 1 \/ q > MAX_PER_PAGE + 1)

\* "if page < 1" / "if per_page < 1 or per_page > 250"
PageArgsValid(p, q) == ~(p < 1) /\ ~(q < 1 \/ q > MAX_PER_PAGE)

\* The HTTPException the validation raises for invalid arguments.
ValidationError(p, q) ==
    IF p < 1 THEN HTTPException(400, "Page must be >= 1")
    ELSE HTTPException(400, "Per page must be between 1 and 250")

\* Mutant: the same wait after every 429.
RateLimitWaitFlat(a) == RETRY_DELAY

\* Mutant: the wait doubles with every attempt.
RateLimitWaitExponential(a) == RETRY_DELAY * 2 ^ a

\* "wait_time = RETRY_DELAY * (attempt + 1)"
RateLimitWait(a) == RETRY_DELAY * (a + 1)

\* Mutant: the wait after a network failure grows like the one after a 429.
NetworkWaitLinear(a) == NETWORK_RETRY_DELAY * (a + 1)

\* "time.sleep(5)" after a network-level failure
NetworkWait(a) == NETWORK_RETRY_DELAY

\* Mutant: the retry loop of a page goes on from where the previous page's
\* loop stopped.
FirstAttemptCarried(a) == a

\* "for attempt in range(max_retries)" entered for a new page, a being the
\* value the loop variable had for the previous page
FirstAttempt(a) == 0

\* Mutant: no attempt is taken for the last one.
LastAttemptNever(a) == FALSE

\* "if attempt == max_retries - 1"
LastAttempt(a) == a = max_retries - 1

RateLimitExceeded ==
    HTTPException(429, "CoinGecko API rate limit exceeded. Please try again later.")
UpstreamUnavailable ==
    HTTPException(500, "Failed to fetch data from CoinGecko")
\* Mutant: every upstream HTTP error surfaces as 500.
UpstreamHttpErrorAs500(s) == HTTPException(500, "str(e)")

\* raise HTTPException(status_code=response.status_code, detail=str(e))
UpstreamHttpError(s) == HTTPException(s, "str(e)")

\* Mutant: the new page goes in front of the earlier ones.
ExtendInFront(coins, data) == data \o coins

\* "all_coins.extend(data)"
Extend(coins, data) == coins \o data

\* Mutant: the cap is not applied.
TruncateNothing(coins) == coins

\* "all_coins[:MAX_COINS]"
Truncate(coins) ==
    IF Len(coins) > MAX_COINS THEN SubSeq(coins, 1, MAX_COINS) ELSE coins

\* What is recorded of a call at its entry: its arguments, the time, the cache
\* as it found it, whether it went as far as _cache_get, and the last
\* successful upstream fetch for its key.
EnterCall(kind, p, q, k, looked) ==
    [kind |-> kind, page |-> p, per_page |-> q, key |-> k,
     start |-> now, cache0 |-> cache, looked |-> looked,
     prevFetch |-> IF k \in DOMAIN fetched THEN fetched[k] ELSE NoFetch]

\* History kept only for the keys the cache holds.
StoredFor(c) == [k \in (DOMAIN stored) \cap (DOMAIN c) |-> stored[k]]

-----------------------------------------------------------------------------
(* fetch_coins_from_coingecko_paginated(page, per_page) *)

\* Validation, cache key, _cache_get, "if cached is not None: return cached".
Page_Enter(p, q) ==
    /\ Idle
    /\ events < MaxEvents
    /\ events' = events + 1
    /\ log' = <<>>
    /\ UNCHANGED <<now, page, all_coins, fetched>>
    /\ IF ~PageArgsValid(p, q)
       THEN /\ call' = EnterCall("page", p, q, NoKey, FALSE)
            /\ ret' = ValidationError(p, q)
            /\ pc' = "done"
            /\ heap' = Collect(heap, cache, ret')
            /\ UNCHANGED <<cache, stored, attempt>>
       ELSE LET k == PageKey(p, q)
                cached == CacheGetRef(cache, k, now)
            IN  /\ call' = EnterCall("page", p, q, k, TRUE)
                /\ cache' = CacheAfterGet(cache, k, now)
                /\ stored' = StoredFor(cache')
                /\ IF cached # 0
                   THEN /\ ret' = Returned(cached)
                        /\ pc' = "done"
                        /\ UNCHANGED attempt
                   ELSE /\ ret' = NoRet
                        /\ pc' = "attempting"
                        /\ attempt' = 0
                /\ heap' = Collect(heap, cache', ret')
    /\ UNCHANGED extVars

\* Mutant: a page obtained by a retry is returned but not stored.
Page_OkStoresFirstAttemptOnly ==
    /\ pc = "attempting"
    /\ call.kind = "page"
    /\ \E n \in RespSizes(call.per_page) :
       LET data == UpstreamPage(call.page, call.per_page, n)
           r == NewRef(heap)
       IN  /\ log' = Append(log, GetEvent(call.page, call.per_page, 200, n))
           /\ fetched' = Put(fetched, call.key,
                               [at |-> now, n |-> n, first |-> attempt = 0])
           /\ ret' = Returned(r)
           /\ pc' = "done"
           /\ IF data = <<>> \/ attempt > 0
              THEN /\ heap' = Put(heap, r, data)
                   /\ UNCHANGED <<cache, stored>>
              ELSE /\ cache' = CacheAfterSet(cache, call.key, now, r)
                   /\ heap' = Collect(Put(heap, r, data), cache', ret')
                   /\ stored' = Put(stored, call.key, data)
    /\ UNCHANGED <<now, call, page, attempt, all_coins, events>>
    /\ UNCHANGED extVars

\* An attempt answered with a page of n records: "break", then
\* "if not data: return []", else _cache_set and "return data".
Page_Ok ==
    /\ pc = "attempting"
    /\ call.kind = "page"
    /\ \E n \in RespSizes(call.per_page) :
       LET data == UpstreamPage(call.page, call.per_page, n)
           r == NewRef(heap)
       IN  /\ log' = Append(log, GetEvent(call.page, call.per_page, 200, n))
           /\ fetched' = Put(fetched, call.key,
                               [at |-> now, n |-> n, first |-> attempt = 0])
           /\ ret' = Returned(r)
           /\ pc' = "done"
           /\ IF data = <<>>
              THEN /\ heap' = Put(heap, r, <<>>)
                   /\ UNCHANGED <<cache, stored>>
              ELSE /\ cache' = CacheAfterSet(cache, call.key, now, r)
                   /\ heap' = Collect(Put(heap, r, data), cache', ret')
                   /\ stored' = Put(stored, call.key, data)
    /\ UNCHANGED <<now, call, page, attempt, all_coins, events>>
    /\ UNCHANGED extVars

\* An attempt answered 429: sleep RETRY_DELAY * (attempt + 1), then raise on
\* the last attempt, else go on to the next attempt.
Page_RateLimited ==
    /\ pc = "attempting"
    /\ call.kind = "page"
    /\ events < MaxEvents
    /\ events' = events + 1
    /\ LET wait_time == RateLimitWait(attempt)
       IN  /\ now' = now + wait_time
           /\ log' = log \o <<GetEvent(call.page, call.per_page, 429, 0),
                              SleepEvent(call.page, wait_time)>>
    /\ IF LastAttempt(attempt)
       THEN /\ ret' = RateLimitExceeded
            /\ pc' = "done"
            /\ UNCHANGED attempt
       ELSE /\ attempt' = attempt + 1
            /\ UNCHANGED <<ret, pc>>
    /\ UNCHANGED <<cache, heap, call, page, all_coins, stored, fetched>>
    /\ UNCHANGED extVars

\* An attempt answered with an HTTP error status other than 429: raise.
Page_HttpError(s) ==
    /\ pc = "attempting"
    /\ call.kind = "page"
    /\ log' = Append(log, GetEvent(call.page, call.per_page, s, 0))
    /\ ret' = UpstreamHttpError(s)
    /\ pc' = "done"
    /\ UNCHANGED <<now, cache, heap, call, page, attempt, all_coins, stored,
                   fetched, events>>
    /\ UNCHANGED extVars

\* Mutant: network failures have a budget of their own; one that is retried
\* does not use up an attempt.
Page_NetworkErrorUncounted ==
    /\ pc = "attempting"
    /\ call.kind = "page"
    /\ events < MaxEvents
    /\ events' = events + 1
    /\ IF LastAttempt(attempt)
       THEN /\ ret' = UpstreamUnavailable
            /\ pc' = "done"
            /\ log' = Append(log, GetEvent(call.page, call.per_page, 0, 0))
            /\ UNCHANGED <<attempt, now>>
       ELSE /\ now' = now + NetworkWait(attempt)
            /\ log' = log \o <<GetEvent(call.page, call.per_page, 0, 0),
                               SleepEvent(call.page, NetworkWait(attempt))>>
            /\ UNCHANGED <<attempt, ret, pc>>
    /\ UNCHANGED <<cache, heap, call, page, all_coins, stored, fetched>>
    /\ UNCHANGED extVars

\* An attempt that fails below HTTP (timeout, connection): raise on the last
\* attempt, else sleep 5 and go on to the next attempt.
Page_NetworkError ==
    /\ pc = "attempting"
    /\ call.kind = "page"
    /\ events < MaxEvents
    /\ events' = events + 1
    /\ IF LastAttempt(attempt)
       THEN /\ ret' = UpstreamUnavailable
            /\ pc' = "done"
            /\ log' = Append(log, GetEvent(call.page, call.per_page, 0, 0))
            /\ UNCHANGED <<attempt, now>>
       ELSE /\ now' = now + NetworkWait(attempt)
            /\ log' = log \o <<GetEvent(call.page, call.per_page, 0, 0),
                               SleepEvent(call.page, NetworkWait(attempt))>>
            /\ attempt' = attempt + 1
            /\ UNCHANGED <<ret, pc>>
    /\ UNCHANGED <<cache, heap, call, page, all_coins, stored, fetched>>
    /\ UNCHANGED extVars

-----------------------------------------------------------------------------
(* fetch_coins_from_coingecko() *)

\* Mutant: an empty aggregate is returned without being stored, as an empty
\* page is.
Top_FinishSkipsEmpty(coins, t) ==
    LET r == NewRef(heap)
    IN  /\ cache' = IF coins = <<>> THEN cache
                    ELSE CacheAfterSet(cache, TopKey, t, r)
        /\ ret' = Returned(r)
        /\ heap' = Collect(Put(heap, r, coins), cache', ret')
        /\ stored' = IF coins = <<>> THEN stored ELSE Put(stored, TopKey, coins)
        /\ pc' = "done"

\* "_cache_set(cache_key, all_coins); return all_coins" with all_coins = coins,
\* at time t.
Top_Finish(coins, t) ==
    LET r == NewRef(heap)
    IN  /\ cache' = CacheAfterSet(cache, TopKey, t, r)
        /\ ret' = Returned(r)
        /\ heap' = Collect(Put(heap, r, coins), cache', ret')
        /\ stored' = Put(stored, TopKey, coins)
        /\ pc' = "done"

\* Cache key, _cache_get, "if cached is not None: return cached", else
\* all_coins = [], page = 1 and the first test of the while condition.
Top_Enter ==
    /\ Idle
    /\ events < MaxEvents
    /\ events' = events + 1
    /\ log' = <<>>
    /\ call' = EnterCall("top", 0, PER_PAGE, TopKey, TRUE)
    /\ UNCHANGED <<now, fetched>>
    /\ LET cached == CacheGetRef(cache, TopKey, now)
           c1 == CacheAfterGet(cache, TopKey, now)
       IN  IF cached # 0
           THEN /\ ret' = Returned(cached)
                /\ pc' = "done"
                /\ cache' = c1
                /\ stored' = StoredFor(c1)
                /\ heap' = Collect(heap, c1, ret')
                /\ UNCHANGED <<page, attempt, all_coins>>
           ELSE /\ all_coins' = <<>>
                /\ page' = 1
                /\ attempt' = 0
                /\ IF Len(all_coins') < MAX_COINS
                   THEN /\ ret' = NoRet
                        /\ pc' = "attempting"
                        /\ cache' = c1
                        /\ stored' = StoredFor(c1)
                        /\ heap' = Collect(heap, c1, ret')
                   ELSE LET r == NewRef(heap)
                        IN  /\ cache' = CacheAfterSet(c1, TopKey, now, r)
                            /\ ret' = Returned(r)
                            /\ heap' = Collect(Put(heap, r, <<>>), cache', ret')
                            /\ stored' = Put(StoredFor(c1), TopKey, <<>>)
                            /\ pc' = "done"
    /\ UNCHANGED extVars

\* Mutant: every other page is left out.
NextPageSkips(p) == p + 2

\* page += 1
NextPage(p) == p + 1

\* Mutant: the delay between requests comes before the test of the cap, so it
\* is also slept after the page that reaches MAX_COINS.
Top_OkSleepsBeforeCap(n) ==
    /\ pc = "attempting"
    /\ call.kind = "top"
    /\ LET data == UpstreamPage(page, PER_PAGE, n)
           coins == Extend(all_coins, data)
       IN  IF data = <<>>
           THEN /\ log' = Append(log, GetEvent(page, PER_PAGE, 200, n))
                /\ Top_Finish(all_coins, now)
                /\ UNCHANGED <<now, page, attempt, all_coins>>
           ELSE /\ now' = now + REQUEST_DELAY
                /\ log' = log \o <<GetEvent(page, PER_PAGE, 200, n),
                                   SleepEvent(page, REQUEST_DELAY)>>
                /\ IF Len(coins) >= MAX_COINS
                   THEN /\ all_coins' = Truncate(coins)
                        /\ Top_Finish(all_coins', now')
                        /\ UNCHANGED <<page, attempt>>
                   ELSE /\ all_coins' = coins
                        /\ page' = page + 1
                        /\ attempt' = 0
                        /\ UNCHANGED <<cache, heap, ret, stored, pc>>
    /\ UNCHANGED <<call, fetched, events>>
    /\ UNCHANGED extVars

\* An attempt answered with a page of n records: "break", then the rest of
\* the while body: end of data, extend, cap, or next page after the delay.
Top_Ok(n) ==
    /\ pc = "attempting"
    /\ call.kind = "top"
    /\ LET data == UpstreamPage(page, PER_PAGE, n)
           coins == Extend(all_coins, data)
       IN  IF data = <<>>
           THEN /\ log' = Append(log, GetEvent(page, PER_PAGE, 200, n))
                /\ Top_Finish(all_coins, now)
                /\ UNCHANGED <<now, page, attempt, all_coins>>
           ELSE IF Len(coins) >= MAX_COINS
           THEN /\ log' = Append(log, GetEvent(page, PER_PAGE, 200, n))
                /\ all_coins' = Truncate(coins)
                /\ Top_Finish(all_coins', now)
                /\ UNCHANGED <<now, page, attempt>>
           ELSE /\ all_coins' = coins
                /\ page' = NextPage(page)
                /\ now' = now + REQUEST_DELAY
                /\ log' = log \o <<GetEvent(page, PER_PAGE, 200, n),
                                   SleepEvent(page, REQUEST_DELAY)>>
                /\ attempt' = FirstAttempt(attempt)
                /\ IF Len(all_coins') < MAX_COINS
                   THEN UNCHANGED <<cache, heap, ret, stored, pc>>
                   ELSE Top_Finish(all_coins', now')
    /\ UNCHANGED <<call, fetched, events>>
    /\ UNCHANGED extVars

\* An attempt answered 429.
Top_RateLimited ==
    /\ pc = "attempting"
    /\ call.kind = "top"
    /\ events < MaxEvents
    /\ events' = events + 1
    /\ LET wait_time == RateLimitWait(attempt)
       IN  /\ now' = now + wait_time
           /\ log' = log \o <<GetEvent(page, PER_PAGE, 429, 0),
                              SleepEvent(page, wait_time)>>
    /\ IF LastAttempt(attempt)
       THEN /\ ret' = RateLimitExceeded
            /\ pc' = "done"
            /\ UNCHANGED attempt
       ELSE /\ attempt' = attempt + 1
            /\ UNCHANGED <<ret, pc>>
    /\ UNCHANGED <<cache, heap, call, page, all_coins, stored, fetched>>
    /\ UNCHANGED extVars

\* Mutant: the pages accumulated so far are cached before the error is raised.
Top_HttpErrorCachesPartial(s) ==
    /\ pc = "attempting"
    /\ call.kind = "top"
    /\ log' = Append(log, GetEvent(page, PER_PAGE, s, 0))
    /\ LET r == NewRef(heap)
       IN  /\ cache' = CacheAfterSet(cache, TopKey, now, r)
           /\ heap' = Put(heap, r, all_coins)
           /\ stored' = Put(stored, TopKey, all_coins)
    /\ ret' = UpstreamHttpError(s)
    /\ pc' = "done"
    /\ UNCHANGED <<now, call, page, attempt, all_coins, fetched, events>>
    /\ UNCHANGED extVars

\* An attempt answered with an HTTP error status other than 429.
Top_HttpError(s) ==
    /\ pc = "attempting"
    /\ call.kind = "top"
    /\ log' = Append(log, GetEvent(page, PER_PAGE, s, 0))
    /\ ret' = UpstreamHttpError(s)
    /\ pc' = "done"
    /\ UNCHANGED <<now, cache, heap, call, page, attempt, all_coins, stored,
                   fetched, events>>
    /\ UNCHANGED extVars

\* An attempt that fails below HTTP.
Top_NetworkError ==
    /\ pc = "attempting"
    /\ call.kind = "top"
    /\ events < MaxEvents
    /\ events' = events + 1
    /\ IF LastAttempt(attempt)
       THEN /\ ret' = UpstreamUnavailable
            /\ pc' = "done"
            /\ log' = Append(log, GetEvent(page, PER_PAGE, 0, 0))
            /\ UNCHANGED <<attempt, now>>
       ELSE /\ now' = now + NetworkWait(attempt)
            /\ log' = log \o <<GetEvent(page, PER_PAGE, 0, 0),
                               SleepEvent(page, NetworkWait(attempt))>>
            /\ attempt' = attempt + 1
            /\ UNCHANGED <<ret, pc>>
    /\ UNCHANGED <<cache, heap, call, page, all_coins, stored, fetched>>
    /\ UNCHANGED extVars

-----------------------------------------------------------------------------
(* main.py: GET /cryptos and GET /cryptos/top/{limit}.  main.py carries its  *)
(* own fetch_coins_from_coingecko and fetch_coins_from_coingecko_paginated,   *)
(* which have the retry loops of crypto_service.py and no cache; the sizes   *)
(* PER_PAGE and MAX_COINS it fixes are modelled at the same small values.    *)

InRequest(kind) == pc = "attempting" /\ req.kind = kind

\* An attempt for page p answered 429, in either of main.py's fetch functions;
\* the HTTPException passes through the handler ("except HTTPException: raise").
Main_RateLimitedStep(p, q) ==
    /\ events < MaxEvents
    /\ events' = events + 1
    /\ LET wait_time == RateLimitWait(attempt)
       IN  /\ now' = now + wait_time
           /\ log' = log \o <<GetEvent(p, q, 429, 0), SleepEvent(p, wait_time)>>
    /\ IF LastAttempt(attempt)
       THEN /\ resp' = ErrorResponse(RateLimitExceeded)
            /\ pc' = "done"
            /\ UNCHANGED attempt
       ELSE /\ attempt' = attempt + 1
            /\ UNCHANGED <<resp, pc>>
    /\ UNCHANGED <<page, all_coins, raw_coins>>

\* Mutant: main.py retries after an HTTP error other than 429 as after a
\* network failure.
Main_HttpErrorStepRetried(p, q, s) ==
    /\ IF LastAttempt(attempt)
       THEN /\ resp' = ErrorResponse(UpstreamHttpError(s))
            /\ pc' = "done"
            /\ log' = Append(log, GetEvent(p, q, s, 0))
            /\ UNCHANGED <<attempt, now>>
       ELSE /\ now' = now + NetworkWait(attempt)
            /\ log' = log \o <<GetEvent(p, q, s, 0),
                               SleepEvent(p, NetworkWait(attempt))>>
            /\ attempt' = attempt + 1
            /\ UNCHANGED <<resp, pc>>
    /\ UNCHANGED <<page, all_coins, raw_coins, events>>

\* An attempt for page p answered with another HTTP error status.
Main_HttpErrorStep(p, q, s) ==
    /\ log' = Append(log, GetEvent(p, q, s, 0))
    /\ resp' = ErrorResponse(UpstreamHttpError(s))
    /\ pc' = "done"
    /\ UNCHANGED <<now, page, attempt, all_coins, raw_coins, events>>

\* An attempt for page p that fails below HTTP.
Main_NetworkErrorStep(p, q) ==
    /\ events < MaxEvents
    /\ events' = events + 1
    /\ IF LastAttempt(attempt)
       THEN /\ resp' = ErrorResponse(UpstreamUnavailable)
            /\ pc' = "done"
            /\ log' = Append(log, GetEvent(p, q, 0, 0))
            /\ UNCHANGED <<attempt, now>>
       ELSE /\ now' = now + NetworkWait(attempt)
            /\ log' = log \o <<GetEvent(p, q, 0, 0),
                               SleepEvent(p, NetworkWait(attempt))>>
            /\ attempt' = attempt + 1
            /\ UNCHANGED <<resp, pc>>
    /\ UNCHANGED <<page, all_coins, raw_coins>>

\* The top-N request just handled, if its fetch returned coins.
PrevTop ==
    IF req.kind = "top" /\ pc = "done" /\ raw_coins # <<>>
    THEN [valid |-> TRUE, start |-> req.start, limit |-> req.limit,
          coins |-> raw_coins]
    ELSE NoPrevTop

\* What main.py's handlers never touch: crypto_service's cache and calls, and
\* the single normalization.
MainFrame ==
    UNCHANGED <<cache, heap, call, ret, stored, fetched, raw, coin, thr, ops,
                svc>>

\* GET /cryptos?page=p&per_page=q: the validation of the handler, then the
\* entry of fetch_coins_from_coingecko_paginated (whose own validation then
\* passes).
GetCryptos_Enter(p, q) ==
    /\ Idle
    /\ events < MaxEvents
    /\ events' = events + 1
    /\ req' = [kind |-> "cryptos", page |-> p, per_page |-> q, limit |-> 0,
               start |-> now, prevTop |-> PrevTop]
    /\ log' = <<>>
    /\ raw_coins' = <<>>
    /\ IF ~PageArgsValid(p, q)
       THEN /\ resp' = ErrorResponse(ValidationError(p, q))
            /\ pc' = "done"
            /\ UNCHANGED attempt
       ELSE /\ resp' = NoResp
            /\ pc' = "attempting"
            /\ attempt' = 0
    /\ UNCHANGED <<now, page, all_coins>>
    /\ MainFrame

\* The attempt answered with a page: the fetch returns it ("return []" for an
\* empty one) and the handler responds.
Main_Page_Ok ==
    /\ InRequest("cryptos")
    /\ \E n \in RespSizes(req.per_page) :
       LET data == UpstreamPage(req.page, req.per_page, n)
       IN  /\ log' = Append(log, GetEvent(req.page, req.per_page, 200, n))
           /\ raw_coins' = data
           /\ resp' = GetCryptosRespond(req.page, req.per_page, data)
    /\ pc' = "done"
    /\ UNCHANGED <<now, page, attempt, all_coins, events, req>>
    /\ MainFrame

Main_Page_RateLimited ==
    /\ InRequest("cryptos")
    /\ Main_RateLimitedStep(req.page, req.per_page)
    /\ UNCHANGED req
    /\ MainFrame

Main_Page_HttpError(s) ==
    /\ InRequest("cryptos")
    /\ Main_HttpErrorStep(req.page, req.per_page, s)
    /\ UNCHANGED req
    /\ MainFrame

Main_Page_NetworkError ==
    /\ InRequest("cryptos")
    /\ Main_NetworkErrorStep(req.page, req.per_page)
    /\ UNCHANGED req
    /\ MainFrame

\* GET /cryptos/top/{limit}: the test of the limit, then the entry of
\* fetch_coins_from_coingecko: all_coins = [], page = 1.
GetTopCryptos_Enter(limit) ==
    /\ Idle
    /\ events < MaxEvents
    /\ events' = events + 1
    /\ req' = [kind |-> "top", page |-> 0, per_page |-> PER_PAGE,
               limit |-> limit, start |-> now, prevTop |-> PrevTop]
    /\ log' = <<>>
    /\ raw_coins' = <<>>
    /\ IF ~LimitValid(limit)
       THEN /\ resp' = ErrorResponse(
                          HTTPException(400, "Limit must be between 1 and 1000"))
            /\ pc' = "done"
            /\ UNCHANGED <<page, attempt, all_coins>>
       ELSE /\ resp' = NoResp
            /\ pc' = "attempting"
            /\ all_coins' = <<>>
            /\ page' = 1
            /\ attempt' = 0
    /\ UNCHANGED now
    /\ MainFrame

\* The attempt answered with a page of n records: the rest of the while body
\* and, when the loop ends, "return all_coins" and the handler's response.
Main_Top_Ok(n) ==
    /\ InRequest("top")
    /\ LET data == UpstreamPage(page, PER_PAGE, n)
           coins == Extend(all_coins, data)
       IN  IF data = <<>>
           THEN /\ log' = Append(log, GetEvent(page, PER_PAGE, 200, n))
                /\ raw_coins' = all_coins
                /\ resp' = GetTopCryptosRespond(req.limit, all_coins)
                /\ pc' = "done"
                /\ UNCHANGED <<now, page, attempt, all_coins>>
           ELSE IF Len(coins) >= MAX_COINS
           THEN /\ log' = Append(log, GetEvent(page, PER_PAGE, 200, n))
                /\ all_coins' = Truncate(coins)
                /\ raw_coins' = all_coins'
                /\ resp' = GetTopCryptosRespond(req.limit, all_coins')
                /\ pc' = "done"
                /\ UNCHANGED <<now, page, attempt>>
           ELSE /\ all_coins' = coins
                /\ page' = NextPage(page)
                /\ now' = now + REQUEST_DELAY
                /\ log' = log \o <<GetEvent(page, PER_PAGE, 200, n),
                                   SleepEvent(page, REQUEST_DELAY)>>
                /\ attempt' = FirstAttempt(attempt)
                /\ UNCHANGED <<raw_coins, resp, pc>>
    /\ UNCHANGED <<events, req>>
    /\ MainFrame

Main_Top_RateLimited ==
    /\ InRequest("top")
    /\ Main_RateLimitedStep(page, PER_PAGE)
    /\ UNCHANGED req
    /\ MainFrame

Main_Top_HttpError(s) ==
    /\ InRequest("top")
    /\ Main_HttpErrorStep(page, PER_PAGE, s)
    /\ UNCHANGED req
    /\ MainFrame

Main_Top_NetworkError ==
    /\ InRequest("top")
    /\ Main_NetworkErrorStep(page, PER_PAGE)
    /\ UNCHANGED req
    /\ MainFrame

-----------------------------------------------------------------------------
(* The environment *)

\* Time passes between two calls (it matters only if a call follows).
Tick(d) ==
    /\ pc = "done"
    /\ events + 1 < MaxEvents
    /\ events' = events + 1
    /\ now' = now + d
    /\ UNCHANGED <<cache, heap, pc, call, page, attempt, all_coins, ret, log,
                   stored, fetched>>
    /\ UNCHANGED extVars

\* A caller that changes the list it was handed: coins.pop().
CallerMutate ==
    /\ pc = "done"
    /\ ret.kind = "ok"
    /\ events < MaxEvents
    /\ Len(heap[ret.ref]) > 0
    /\ events' = events + 1
    /\ heap' = Put(heap, ret.ref, SubSeq(heap[ret.ref], 1, Len(heap[ret.ref]) - 1))
    /\ UNCHANGED <<now, cache, pc, call, page, attempt, all_coins, ret, log,
                   stored, fetched>>
    /\ UNCHANGED extVars

Next ==
    \/ \E a \in PageRequests : Page_Enter(a[1], a[2])
    \/ Page_Ok
    \/ Page_RateLimited
    \/ \E s \in OtherStatuses : Page_HttpError(s)
    \/ Page_NetworkError
    \/ Top_Enter
    \/ \E n \in RespSizes(PER_PAGE) : Top_Ok(n)
    \/ Top_RateLimited
    \/ \E s \in OtherStatuses : Top_HttpError(s)
    \/ Top_NetworkError
    \/ \E d \in TickSteps : Tick(d)

\* The callers of this repository read the lists they are handed.
Spec == Init /\ [][Next]_vars

\* A step of the call in progress.
CallStep ==
    \/ Page_Ok
    \/ Page_RateLimited
    \/ \E s \in OtherStatuses : Page_HttpError(s)
    \/ Page_NetworkError
    \/ \E n \in RespSizes(PER_PAGE) : Top_Ok(n)
    \/ Top_RateLimited
    \/ \E s \in OtherStatuses : Top_HttpError(s)
    \/ Top_NetworkError

\* A call in progress goes on: the code runs sequentially and every request
\* is answered or times out (timeout=30).  The time between calls plays no
\* part in whether a call ends and is left out.
NextLive ==
    \/ \E a \in PageRequests : Page_Enter(a[1], a[2])
    \/ Top_Enter
    \/ CallStep

SpecLive == Init /\ [][NextLive]_vars /\ WF_vars(CallStep)

\* With a caller that changes the list it was handed.
SpecOwn == Init /\ [][Next \/ CallerMutate]_vars

\* main.py serving its two endpoints; it never reads the clock, so the time
\* between two requests is left out.
NextApi ==
    \/ \E a \in PageRequests : GetCryptos_Enter(a[1], a[2])
    \/ Main_Page_Ok
    \/ Main_Page_RateLimited
    \/ \E s \in OtherStatuses : Main_Page_HttpError(s)
    \/ Main_Page_NetworkError
    \/ \E limit \in TopLimits : GetTopCryptos_Enter(limit)
    \/ \E n \in RespSizes(PER_PAGE) : Main_Top_Ok(n)
    \/ Main_Top_RateLimited
    \/ \E s \in OtherStatuses : Main_Top_HttpError(s)
    \/ Main_Top_NetworkError

SpecApi == Init /\ [][NextApi]_vars

\* Arguments of GET /cryptos around the last page, for page sizes that do
\* and do not divide the estimated total.
PagingRequests ==
    {<<1, 1>>, <<ESTIMATED_TOTAL, 1>>, <<ESTIMATED_TOTAL + 1, 1>>,
     <<1, 3>>, <<2, 3>>, <<334, 3>>, <<335, 3>>,
     <<1, MAX_PER_PAGE>>, <<3, MAX_PER_PAGE>>, <<4, MAX_PER_PAGE>>,
     <<5, MAX_PER_PAGE>>}

\* main.py serving one GET /cryptos request.
NextPaging ==
    \/ pc = "idle" /\ \E a \in PagingRequests : GetCryptos_Enter(a[1], a[2])
    \/ Main_Page_Ok
    \/ Main_Page_RateLimited
    \/ \E s \in OtherStatuses : Main_Page_HttpError(s)
    \/ Main_Page_NetworkError

SpecPaging == Init /\ [][NextPaging]_vars

\* One normalization of one raw record.
Transform ==
    /\ coin = NoResult
    /\ coin' = transform_coin_data(raw)
    /\ UNCHANGED <<now, cache, heap, pc, call, page, attempt, all_coins, ret,
                   log, stored, fetched, events, req, raw_coins, resp, raw,
                   thr, ops, svc>>

InitNorm ==
    /\ raw \in RawRecords
    /\ coin = NoResult
    /\ now = 0 /\ cache = <<>> /\ heap = <<>> /\ pc = "idle" /\ call = NoCall
    /\ page = 0 /\ attempt = 0 /\ all_coins = <<>> /\ ret = NoRet
    /\ log = <<>> /\ stored = <<>> /\ fetched = <<>> /\ events = 0
    /\ req = NoReq /\ raw_coins = <<>> /\ resp = NoResp
    /\ thr = [i \in Threads |-> NoThread] /\ ops = <<>> /\ svc = NoSvc

SpecNorm == InitNorm /\ [][Transform]_vars

-----------------------------------------------------------------------------
(* Concurrent callers of crypto_service.py.  The module takes no lock; a     *)
(* thread can be preempted between any two accesses to _cache or the clock,   *)
(* and between the upstream requests of its loop.  time.sleep blocks only     *)
(* its caller: the thread is asleep until the clock reaches its wake time,    *)
(* other threads run meanwhile and the sleeps of two threads overlap.  When   *)
(* a call returns or raises, its locals are gone: the caller is left with     *)
(* the result.  A list nothing refers to any   *)
(* more is collected.                                                         *)

ConcFrame ==
    UNCHANGED <<pc, call, page, attempt, all_coins, ret, log, stored, fetched,
                req, raw_coins, resp, raw, coin, svc>>

\* The lists the cache c or the threads t refer to.
LiveRefs(c, t) ==
    {c[k].ref : k \in DOMAIN c}
        \cup {t[i].ref : i \in Threads}
        \cup {t[i].entry.ref : i \in Threads}
        \cup {t[i].ret.ref : i \in Threads}

\* The heap h without the lists that died.
ConcCollect(h, c, t) == [r \in (DOMAIN h) \cap LiveRefs(c, t) |-> h[r]]

\* The cache key of a call.
ConcKey(r) == IF r[1] = "top" THEN TopKey ELSE PageKey(r[2], r[3])

\* Thread i enters a fetch function: cache_key, then _cache_get reads the clock.
Conc_Call(i, r) ==
    /\ thr[i].pc \in {"idle", "done"}
    /\ events < MaxEvents
    /\ events' = events + 1
    /\ thr' = [thr EXCEPT ![i] =
                  [NoThread EXCEPT !.pc = "get_entry", !.kind = r[1],
                                   !.page = r[2], !.per_page = r[3],
                                   !.key = ConcKey(r), !.get_now = now]]
    /\ UNCHANGED <<now, cache, ops>>
    /\ ConcFrame
    /\ heap' = ConcCollect(heap, cache', thr')

\* Thread record t after _cache_get returned None: for the aggregate
\* "all_coins = []; page = 1", and the retry loop at its start.
StartFetch(t) ==
    [t EXCEPT !.pc = "fetch", !.get_now = 0, !.entry = NoEntry,
              !.attempt = 0, !.all_coins = <<>>,
              !.top_page = IF t.kind = "top" THEN 1 ELSE 0]

\* A thread whose fetch function returned or raised v.
Ended(v) == [NoThread EXCEPT !.pc = "done", !.ret = v]

\* _cache_get: entry = _cache.get(key), and the tests on it.
Conc_GetEntry(i) ==
    /\ thr[i].pc = "get_entry"
    /\ thr' = [thr EXCEPT ![i] =
                  IF thr[i].key \notin DOMAIN cache
                  THEN StartFetch(@)
                  ELSE IF Expired(thr[i].get_now, cache[thr[i].key].ts)
                  THEN [@ EXCEPT !.pc = "get_pop", !.entry = cache[thr[i].key]]
                  ELSE Ended(Returned(cache[thr[i].key].ref))]
    /\ UNCHANGED <<now, cache, ops, events>>
    /\ ConcFrame
    /\ heap' = ConcCollect(heap, cache', thr')

\* _cache_get: _cache.pop(key, None)
Conc_GetPop(i) ==
    /\ thr[i].pc = "get_pop"
    /\ cache' = Drop(cache, thr[i].key)
    /\ ops' = Append(ops, CacheOp(i, "pop", thr[i].key, thr[i].get_now,
                                  IF thr[i].key \in DOMAIN cache
                                  THEN cache[thr[i].key] ELSE NoEntry))
    /\ thr' = [thr EXCEPT ![i] = StartFetch(@)]
    /\ UNCHANGED <<now, events>>
    /\ ConcFrame
    /\ heap' = ConcCollect(heap, cache', thr')

\* The page and the page size of the request thread i is about to make.
ConcPage(i) == IF thr[i].kind = "top" THEN thr[i].top_page ELSE thr[i].page
ConcPerPage(i) == IF thr[i].kind = "top" THEN PER_PAGE ELSE thr[i].per_page

\* Thread record t out of its loop with its list in the object r, in
\* _cache_set, which read the clock at time ts.
ToStore(t, r, ts) ==
    [t EXCEPT !.pc = "set_store", !.ref = r, !.set_ts = ts,
              !.attempt = 0, !.top_page = 0, !.all_coins = <<>>]

\* An attempt of thread i answered with a page of n records.  Page fetch: an
\* empty page is returned uncached, any other goes to _cache_set.  Aggregate
\* fetch: the rest of the while body, to _cache_set when the loop ends, else
\* the inter-page delay and the next page.
Conc_FetchOk(i, n) ==
    /\ thr[i].pc = "fetch"
    /\ LET r == NewRef(heap)
           data == UpstreamPage(ConcPage(i), ConcPerPage(i), n)
           coins == Extend(thr[i].all_coins, data)
       IN  IF thr[i].kind = "page"
           THEN /\ heap' = Put(heap, r, data)
                /\ thr' = [thr EXCEPT ![i] =
                              IF data = <<>> THEN Ended(Returned(r))
                              ELSE ToStore(@, r, now)]
           ELSE IF data = <<>>
           THEN /\ heap' = Put(heap, r, thr[i].all_coins)
                /\ thr' = [thr EXCEPT ![i] = ToStore(@, r, now)]
           ELSE IF Len(coins) >= MAX_COINS
           THEN /\ heap' = Put(heap, r, Truncate(coins))
                /\ thr' = [thr EXCEPT ![i] = ToStore(@, r, now)]
           ELSE /\ heap' = heap
                /\ thr' = [thr EXCEPT ![i] =
                              [@ EXCEPT !.pc = "wait_page",
                                        !.wake = now + REQUEST_DELAY,
                                        !.all_coins = coins,
                                        !.top_page = NextPage(@)]]
    /\ UNCHANGED <<now, cache, ops, events>>
    /\ ConcFrame

\* An attempt of thread i answered 429: time.sleep(wait_time), on the last
\* attempt too.
Conc_RateLimited(i) ==
    /\ thr[i].pc = "fetch"
    /\ events < MaxEvents
    /\ events' = events + 1
    /\ thr' = [thr EXCEPT ![i] =
                  [@ EXCEPT !.pc = "wait_429",
                            !.wake = now + RateLimitWait(thr[i].attempt)]]
    /\ UNCHANGED <<now, cache, heap, ops>>
    /\ ConcFrame

\* An attempt of thread i answered with another HTTP error status: raise.
Conc_HttpError(i, s) ==
    /\ thr[i].pc = "fetch"
    /\ events < MaxEvents
    /\ events' = events + 1
    /\ thr' = [thr EXCEPT ![i] = Ended(UpstreamHttpError(s))]
    /\ UNCHANGED <<now, cache, ops>>
    /\ ConcFrame
    /\ heap' = ConcCollect(heap, cache', thr')

\* An attempt of thread i that fails below HTTP: raise on the last attempt,
\* else sleep 5.
Conc_NetworkError(i) ==
    /\ thr[i].pc = "fetch"
    /\ events < MaxEvents
    /\ events' = events + 1
    /\ thr' = [thr EXCEPT ![i] =
                  IF LastAttempt(thr[i].attempt)
                  THEN Ended(UpstreamUnavailable)
                  ELSE [@ EXCEPT !.pc = "wait_net",
                                 !.wake = now + NetworkWait(thr[i].attempt)]]
    /\ UNCHANGED <<now, cache, ops>>
    /\ ConcFrame
    /\ heap' = ConcCollect(heap, cache', thr')

\* Thread i is in time.sleep.
Asleep(i) == thr[i].pc \in {"wait_429", "wait_net", "wait_page"}

\* time.sleep of thread i returns, the clock having reached its wake time.
\* After a 429: raise on the last attempt, else the next attempt; after a
\* network failure the next attempt; after the inter-page delay the retry
\* loop of the next page.
Conc_Wake(i) ==
    /\ Asleep(i)
    /\ now >= thr[i].wake
    /\ thr' = [thr EXCEPT ![i] =
                  IF thr[i].pc = "wait_page"
                  THEN [@ EXCEPT !.pc = "fetch", !.wake = 0,
                                 !.attempt = FirstAttempt(@)]
                  ELSE IF thr[i].pc = "wait_429" /\ LastAttempt(thr[i].attempt)
                  THEN Ended(RateLimitExceeded)
                  ELSE [@ EXCEPT !.pc = "fetch", !.wake = 0,
                                 !.attempt = @ + 1]]
    /\ UNCHANGED <<now, cache, heap, ops, events>>
    /\ ConcFrame

\* The wake times the clock has not reached.
PendingWakes == {thr[i].wake : i \in {j \in Threads : Asleep(j)}} \ (0..now)

\* The clock reaches the earliest wake time of the threads asleep.
Conc_Sleep ==
    /\ PendingWakes # {}
    /\ now' = CHOOSE t \in PendingWakes : \A u \in PendingWakes : t <= u
    /\ UNCHANGED <<cache, heap, thr, ops, events>>
    /\ ConcFrame

\* _cache_set: _cache[key] = (ts, value)
Conc_SetStore(i) ==
    /\ thr[i].pc = "set_store"
    /\ cache' = CacheAfterSet(cache, thr[i].key, thr[i].set_ts, thr[i].ref)
    /\ ops' = Append(ops, CacheOp(i, "set", thr[i].key, thr[i].set_ts,
                                  [ts |-> thr[i].set_ts, ref |-> thr[i].ref]))
    /\ thr' = [thr EXCEPT ![i] = Ended(Returned(thr[i].ref))]
    /\ UNCHANGED <<now, events>>
    /\ ConcFrame
    /\ heap' = ConcCollect(heap, cache', thr')

\* Time passes while threads are at work.
Conc_Tick(d) ==
    /\ events < MaxEvents
    /\ events' = events + 1
    /\ now' = now + d
    /\ UNCHANGED <<cache, heap, thr, ops>>
    /\ ConcFrame

NextConc ==
    \/ \E i \in Threads, r \in ConcRequests : Conc_Call(i, r)
    \/ \E i \in Threads : Conc_GetEntry(i)
    \/ \E i \in Threads : Conc_GetPop(i)
    \/ \E i \in Threads, n \in ConcSizes : Conc_FetchOk(i, n)
    \/ \E i \in Threads : Conc_RateLimited(i)
    \/ \E i \in Threads, s \in OtherStatuses : Conc_HttpError(i, s)
    \/ \E i \in Threads : Conc_NetworkError(i)
    \/ \E i \in Threads : Conc_Wake(i)
    \/ Conc_Sleep
    \/ \E i \in Threads : Conc_SetStore(i)
    \/ Conc_Tick(CRYPTO_CACHE_TTL + 1)

SpecConc == Init /\ [][NextConc]_vars

-----------------------------------------------------------------------------
(* The fetch functions of crypto_service.py and of main.py side by side: a   *)
(* call of a crypto_service.py function on the empty cache, then main.py's    *)
(* function of the same name called with the same arguments (by its handler). *)
(* The upstream answers the first run as it likes and gives the second run   *)
(* the same answers in the same order.                                       *)

\* What the upstream answered to the requests of a log, in order.
Answers(l) ==
    LET gs == SelectSeq(l, LAMBDA e : e.ev = "get")
    IN  [i \in 1..Len(gs) |-> <<gs[i].status, gs[i].n>>]

IsPrefixOf(a, b) == Len(a) <= Len(b) /\ a = SubSeq(b, 1, Len(a))

\* The valid arguments among those callers pass.
ValidPageRequests == {a \in PageRequests : PageArgsValid(a[1], a[2])}

\* The first call, of crypto_service.py, with nothing cached.
Eq_ServiceEnter ==
    /\ pc = "idle"
    /\ svc = NoSvc
    /\ \/ \E a \in ValidPageRequests : Page_Enter(a[1], a[2])
       \/ Top_Enter

Eq_ServiceStep ==
    /\ svc = NoSvc
    /\ CallStep

\* The call of crypto_service.py is over: its requests, waits and outcome
\* are kept for the comparison.
Eq_Handover ==
    /\ pc = "done"
    /\ svc = NoSvc
    /\ call.kind # "none"
    /\ svc' = [kind |-> call.kind, page |-> call.page, per_page |-> call.per_page,
               log |-> log,
               out |-> IF ret.kind = "ok"
                       THEN Outcome("ok", heap[ret.ref], 0, "")
                       ELSE Outcome("err", <<>>, ret.status, ret.detail)]
    /\ pc' = "idle"
    /\ events' = 0
    /\ UNCHANGED <<now, cache, heap, call, page, attempt, all_coins, ret, log,
                   stored, fetched, req, raw_coins, resp, raw, coin, thr, ops>>

\* The second call, of main.py, with the arguments of the first.
Eq_MainEnter ==
    /\ pc = "idle"
    /\ svc # NoSvc
    /\ IF svc.kind = "page"
       THEN GetCryptos_Enter(svc.page, svc.per_page)
       ELSE GetTopCryptos_Enter(MAX_LIMIT)

Eq_MainStep ==
    /\ svc # NoSvc
    /\ \/ Main_Page_Ok
       \/ Main_Page_RateLimited
       \/ \E s \in OtherStatuses : Main_Page_HttpError(s)
       \/ Main_Page_NetworkError
       \/ \E n \in RespSizes(PER_PAGE) : Main_Top_Ok(n)
       \/ Main_Top_RateLimited
       \/ \E s \in OtherStatuses : Main_Top_HttpError(s)
       \/ Main_Top_NetworkError
    /\ IsPrefixOf(Answers(log'), Answers(svc.log))

NextEq ==
    \/ Eq_ServiceEnter
    \/ Eq_ServiceStep
    \/ Eq_Handover
    \/ Eq_MainEnter
    \/ Eq_MainStep

SpecEq == Init /\ [][NextEq]_vars

-----------------------------------------------------------------------------
(* Reading the log of a call *)

IsGet(e) == e.ev = "get"
IsSleep(e) == e.ev = "sleep"
IsPageOk(e) == e.ev = "get" /\ e.status = 200

\* The upstream requests of the call so far.
Gets == SelectSeq(log, IsGet)

\* The page the call is working on, or worked on last.
CurPage == IF call.kind = "top" THEN page ELSE call.page

\* The upstream requests for page p, and the sleeps that followed them.
GetsOf(p) == SelectSeq(log, LAMBDA e : IsGet(e) /\ e.page = p)
SleepsOf(p) == SelectSeq(log, LAMBDA e : IsSleep(e) /\ e.page = p)

\* The pages the upstream answered with, in the order it answered.
OkGets == SelectSeq(log, IsPageOk)

RECURSIVE Concat(_)
Concat(gs) ==
    IF gs = <<>> THEN <<>>
    ELSE UpstreamPage(gs[1].page, gs[1].per_page, gs[1].n) \o Concat(Tail(gs))

RECURSIVE Total(_)
Total(gs) == IF gs = <<>> THEN 0 ELSE gs[1].n + Total(Tail(gs))

FirstN(seq, k) == IF Len(seq) > k THEN SubSeq(seq, 1, k) ELSE seq

\* ceil(a / b)
CeilDiv(a, b) == (a + b - 1) \div b

Done == pc = "done"
PageCall == call.kind = "page" /\ call.looked
TopCall == call.kind = "top"
\* The call went to the upstream (it was not served from the cache).
Missed == log # <<>>

\* The age, at the entry of the call, of the last successful upstream fetch
\* for the same arguments.
HasPrev == PageCall /\ call.prevFetch.at >= 0
PrevAge == call.start - call.prevFetch.at

-----------------------------------------------------------------------------
(* C1 *)

\* C1 as stated: after a successful first-attempt upstream fetch for
\* (page, per_page), a call with the same arguments entered within the TTL
\* issues no upstream request, and one entered after the TTL issues one
\* (exactly one when it succeeds at once).
C1_CacheIdempotenceAnyPage ==
    (HasPrev /\ call.prevFetch.first) =>
        /\ PrevAge <= CRYPTO_CACHE_TTL => Gets = <<>>
        /\ (PrevAge > CRYPTO_CACHE_TTL /\ Done) => Len(Gets) >= 1
        /\ (PrevAge > CRYPTO_CACHE_TTL /\ Done /\ Gets[1].status = 200)
              => Len(Gets) = 1

\* C1 amended: the same, for an upstream page that is not empty; after an
\* empty page nothing is cached and the next call goes to the upstream again.
C1_CacheIdempotenceNonEmptyPage ==
    (HasPrev /\ call.prevFetch.first) =>
        /\ (call.prevFetch.n > 0 /\ PrevAge <= CRYPTO_CACHE_TTL) => Gets = <<>>
        /\ (call.prevFetch.n = 0 /\ Done) => Len(Gets) >= 1
        /\ (PrevAge > CRYPTO_CACHE_TTL /\ Done) => Len(Gets) >= 1
        /\ (PrevAge > CRYPTO_CACHE_TTL /\ Done /\ Gets[1].status = 200)
              => Len(Gets) = 1

\* A call entered after the TTL of an earlier non-empty fetch for the same
\* arguments, which went to the upstream once and succeeded.
C1_Witness ==
    /\ Done /\ HasPrev /\ call.prevFetch.first
    /\ call.prevFetch.n > 0
    /\ PrevAge > CRYPTO_CACHE_TTL
    /\ Len(Gets) = 1
    /\ ret.kind = "ok"

-----------------------------------------------------------------------------
(* C2 *)

\* The state right after the _cache_get of a call: nothing requested yet.
AfterLookup == call.looked /\ log = <<>>
WasPresent == call.key \in DOMAIN call.cache0
AgeAtLookup == call.start - call.cache0[call.key].ts
ServedFromCache == Done /\ ret.kind = "ok"

\* C2: _cache_get serves the stored value exactly when an entry exists whose
\* age is at most the TTL (an age equal to the TTL is served); an older entry
\* is reported absent and removed by that read; nothing else changes.
C2_TtlExpirationOnRead ==
    AfterLookup =>
        /\ ServedFromCache <=>
              (WasPresent /\ AgeAtLookup <= CRYPTO_CACHE_TTL)
        /\ ServedFromCache =>
              /\ ret.ref = call.cache0[call.key].ref
              /\ heap[ret.ref] = stored[call.key]
              /\ cache = call.cache0
        /\ (WasPresent /\ AgeAtLookup > CRYPTO_CACHE_TTL) =>
              /\ ~ServedFromCache
              /\ call.key \notin DOMAIN cache
              /\ cache = Drop(call.cache0, call.key)
        /\ ~WasPresent => (~ServedFromCache /\ cache = call.cache0)

\* An entry read at an age of exactly the TTL, and served.
C2_Witness ==
    /\ AfterLookup /\ WasPresent
    /\ AgeAtLookup = CRYPTO_CACHE_TTL
    /\ ServedFromCache

\* An entry read one second later, and purged by the read.
C2_WitnessPurged ==
    /\ AfterLookup /\ WasPresent
    /\ AgeAtLookup = CRYPTO_CACHE_TTL + 1
    /\ call.key \notin DOMAIN cache

-----------------------------------------------------------------------------
(* C3 *)

\* C3: whatever callers do with the lists they were handed, every cache entry
\* holds the records that were stored in it, so a later hit returns them.
C3_CacheOwnsItsEntries ==
    \A k \in DOMAIN cache : heap[cache[k].ref] = stored[k]

-----------------------------------------------------------------------------
(* C4 *)

InvalidPageArgs ==
    /\ call.kind = "page"
    /\ (call.page < 1 \/ call.per_page < 1 \/ call.per_page > 250)

\* C4: a call with page < 1, per_page < 1 or per_page > 250 fails with status
\* 400, requests nothing from the upstream, does not reach _cache_get and
\* leaves the cache as it found it.
C4_InvalidArgumentsRejected ==
    InvalidPageArgs =>
        /\ Done
        /\ ret.kind = "err" /\ ret.status = 400
        /\ log = <<>>
        /\ ~call.looked
        /\ cache = call.cache0

\* per_page = 251 rejected while the cache holds an entry.
C4_Witness ==
    /\ InvalidPageArgs /\ Done
    /\ call.page = 1 /\ call.per_page = 251
    /\ ret.status = 400
    /\ cache # <<>>

-----------------------------------------------------------------------------
(* C5 *)

\* C5: a successful fetch_page call returns at most per_page records.
C5_AtMostPerPageRecords ==
    (Done /\ PageCall /\ ret.kind = "ok") =>
        Len(heap[ret.ref]) <= call.per_page

-----------------------------------------------------------------------------
(* C6 *)

AllAnswered(gs, status) == gs # <<>> /\ \A i \in 1..Len(gs) : gs[i].status = status
StrictlyIncreasing(ws) == \A i, j \in 1..Len(ws) : i < j => ws[i].secs < ws[j].secs

\* C6: when every attempt for a page was answered 429, the finished call made
\* exactly 3 attempts for that page, slept after them for strictly increasing
\* times, and failed with status 429; this in fetch_top and in fetch_page.
C6_PersistentRateLimit ==
    (Done /\ AllAnswered(GetsOf(CurPage), 429)) =>
        /\ Len(GetsOf(CurPage)) = 3
        /\ Len(SleepsOf(CurPage)) >= 2
        /\ StrictlyIncreasing(SleepsOf(CurPage))
        /\ ret = RateLimitExceeded
        /\ ret.status = 429

\* fetch_top, rate limited on every attempt for its second page.
C6_Witness ==
    /\ Done /\ TopCall /\ page = 2
    /\ AllAnswered(GetsOf(2), 429)
    /\ ret.status = 429

\* fetch_page, rate limited on every attempt.
C6_WitnessPage ==
    /\ Done /\ PageCall
    /\ AllAnswered(Gets, 429)
    /\ ret.status = 429

-----------------------------------------------------------------------------
(* C7 *)

IsOtherHttpError(e) == IsGet(e) /\ e.status \notin {0, 200, 429}

\* C7: an attempt answered with an HTTP error status other than 429 is the
\* last event of the call (no further attempt, no sleep), and the call has
\* failed with exactly that status.
C7_OtherHttpErrorIsTerminal ==
    \A i \in 1..Len(log) :
        IsOtherHttpError(log[i]) =>
            /\ i = Len(log)
            /\ Done
            /\ ret.kind = "err"
            /\ ret.status = log[i].status

\* 404 on the second attempt, after a 429 and its sleep.
C7_Witness ==
    /\ Done /\ Len(log) = 3
    /\ log[1].status = 429
    /\ log[3].status = 404
    /\ ret.status = 404

\* 500 on the first attempt: one attempt.
C7_WitnessFirstAttempt ==
    /\ Done /\ Len(Gets) = 1
    /\ Gets[1].status = 500
    /\ ret.status = 500

-----------------------------------------------------------------------------
(* C8 *)

\* C8: when every attempt for a page failed below HTTP, the finished call made
\* exactly 3 attempts for that page, slept 5 s after the first and after the
\* second, and failed with status 500, 'Failed to fetch data from CoinGecko'.
C8_NetworkFailures ==
    (Done /\ AllAnswered(GetsOf(CurPage), 0)) =>
        /\ Len(GetsOf(CurPage)) = 3
        /\ Len(SleepsOf(CurPage)) = 2
        /\ \A i \in 1..Len(SleepsOf(CurPage)) : SleepsOf(CurPage)[i].secs = 5
        /\ ret.kind = "err"
        /\ ret.status = 500
        /\ ret.detail = "Failed to fetch data from CoinGecko"

\* fetch_top, failing below HTTP on every attempt for its second page.
C8_Witness ==
    /\ Done /\ TopCall /\ page = 2
    /\ AllAnswered(GetsOf(2), 0)
    /\ ret.status = 500

-----------------------------------------------------------------------------
(* C9 *)

EndedByEmptyPage ==
    /\ Done /\ TopCall /\ ret.kind = "ok" /\ Missed
    /\ OkGets[Len(OkGets)].n = 0

\* C9: when fetch_top ends because the upstream answered page k+1 with an
\* empty page, it returns the records of pages 1..k, page after page and each
\* page in the upstream's order; they are fewer than MAX_COINS.
C9_AggregatesUntilEmptyPage ==
    EndedByEmptyPage =>
        /\ \A i \in 1..Len(OkGets) : OkGets[i].page = i
        /\ \A i \in 1..(Len(OkGets) - 1) : OkGets[i].n > 0
        /\ heap[ret.ref] = Concat(OkGets)
        /\ Len(heap[ret.ref]) = Total(OkGets)
        /\ Len(heap[ret.ref]) < MAX_COINS

\* Two pages of one record each, then an empty page.
C9_Witness ==
    /\ EndedByEmptyPage
    /\ Len(OkGets) = 3
    /\ heap[ret.ref] = <<1, PER_PAGE + 1>>

-----------------------------------------------------------------------------
(* C10 *)

FullPagesOnly ==
    /\ Done /\ TopCall /\ ret.kind = "ok" /\ Missed
    /\ \A i \in 1..Len(OkGets) : OkGets[i].n >= PER_PAGE

\* No page was requested once MAX_COINS records had been accumulated.
NoRequestPastMax ==
    \A i \in 1..Len(OkGets) : Total(SubSeq(OkGets, 1, i - 1)) < MAX_COINS

\* C10 as stated: with an upstream that never answers fewer than PER_PAGE
\* records, fetch_top returns the first MAX_COINS records and has made exactly
\* ceil(MAX_COINS / PER_PAGE) successful page requests; it never returns more
\* than MAX_COINS records.
C10_HardCapExactPageCount ==
    /\ (Done /\ TopCall /\ ret.kind = "ok") => Len(heap[ret.ref]) <= MAX_COINS
    /\ FullPagesOnly =>
          /\ Len(heap[ret.ref]) = MAX_COINS
          /\ heap[ret.ref] = FirstN(Concat(OkGets), MAX_COINS)
          /\ NoRequestPastMax
          /\ Len(OkGets) = CeilDiv(MAX_COINS, PER_PAGE)

\* C10 amended: the same, with at most ceil(MAX_COINS / PER_PAGE) successful
\* page requests, and exactly that many when every page holds exactly
\* PER_PAGE records.
C10_HardCap ==
    /\ (Done /\ TopCall /\ ret.kind = "ok") => Len(heap[ret.ref]) <= MAX_COINS
    /\ FullPagesOnly =>
          /\ Len(heap[ret.ref]) = MAX_COINS
          /\ heap[ret.ref] = FirstN(Concat(OkGets), MAX_COINS)
          /\ NoRequestPastMax
          /\ Len(OkGets) <= CeilDiv(MAX_COINS, PER_PAGE)
          /\ (\A i \in 1..Len(OkGets) : OkGets[i].n = PER_PAGE)
                => Len(OkGets) = CeilDiv(MAX_COINS, PER_PAGE)

\* Full pages whose total exceeds MAX_COINS: the last page is cut.
C10_Witness ==
    /\ FullPagesOnly
    /\ \A i \in 1..Len(OkGets) : OkGets[i].n = PER_PAGE
    /\ Total(OkGets) > MAX_COINS
    /\ Len(heap[ret.ref]) = MAX_COINS

-----------------------------------------------------------------------------
(* C11 *)

\* A sleep that follows a page the upstream answered with (the other sleeps
\* follow a 429 or a network failure).
IsInterPageSleep(i) == i > 1 /\ IsSleep(log[i]) /\ IsPageOk(log[i - 1])
InterPageSleeps == {i \in 1..Len(log) : IsInterPageSleep(i)}

\* C11: in fetch_top, the first request for every page after the first comes
\* right after a sleep of REQUEST_DELAY that itself comes right after the
\* non-empty answer to the page before; a sleep after an answered page lasts
\* REQUEST_DELAY, follows a non-empty page and is followed by the request for
\* the next page once the call goes on; and a call that returns has slept
\* after every answered page but the last, its last event being the answer to
\* the final page, whether that page reached MAX_COINS or was empty.
C11_InterPageDelay ==
    TopCall =>
        /\ \A i \in 1..Len(log) :
              (IsGet(log[i]) /\ log[i].page > 1
                 /\ (i = 1 \/ log[i - 1].page # log[i].page)) =>
                  /\ i > 2
                  /\ IsInterPageSleep(i - 1)
                  /\ log[i - 1].secs = REQUEST_DELAY
                  /\ log[i - 2].page = log[i].page - 1
        /\ \A i \in InterPageSleeps :
              /\ log[i].secs = REQUEST_DELAY
              /\ log[i - 1].n > 0
              /\ i < Len(log) => (IsGet(log[i + 1])
                                   /\ log[i + 1].page = log[i - 1].page + 1)
        /\ (Done /\ ret.kind = "ok" /\ Missed) =>
              /\ IsPageOk(log[Len(log)])
              /\ Cardinality(InterPageSleeps) = Len(OkGets) - 1

\* Two pages, the second reaching MAX_COINS: one sleep, between them.
C11_Witness ==
    /\ Done /\ TopCall /\ ret.kind = "ok"
    /\ Len(OkGets) = 2
    /\ Len(heap[ret.ref]) = MAX_COINS
    /\ Cardinality(InterPageSleeps) = 1

\* A page, then an empty page: one sleep, between them.
C11_WitnessEmptyPage ==
    /\ EndedByEmptyPage
    /\ Len(OkGets) = 2
    /\ Cardinality(InterPageSleeps) = 1

-----------------------------------------------------------------------------
(* Reading a request of main.py *)

TopRequest == req.kind = "top" /\ req.limit >= 1 /\ req.limit <= MAX_LIMIT
PageRequest == req.kind = "cryptos" /\ PageArgsValid(req.page, req.per_page)
Responded == pc = "done" /\ resp.status # 0

\* The canonical coin of the record of rank idx.
Normalized(idx) == main_transform_coin_data(SampleCoin(idx)).coin
NormalizedAll(coins) == [i \in 1..Len(coins) |-> Normalized(coins[i])]

-----------------------------------------------------------------------------
(* C12 *)

\* A top-N request that follows, within the TTL, a top-N request with another
\* limit whose fetch returned coins.
SecondTopWithinTtl ==
    /\ TopRequest
    /\ req.prevTop.valid
    /\ req.prevTop.limit # req.limit
    /\ req.start - req.prevTop.start <= CRYPTO_CACHE_TTL

\* C12: a top-N request made within the TTL of a top-N request with another
\* limit issues no upstream request and answers with the first `limit`
\* records of the set the earlier request fetched.
C12_TopRequestsShareOneEntry ==
    SecondTopWithinTtl =>
        /\ log = <<>>
        /\ Responded =>
              /\ resp.status = 200
              /\ resp.coins = NormalizedAll(LimitTo(req.prevTop.coins, req.limit))

-----------------------------------------------------------------------------
(* C13 *)

\* A fetch_page call that missed the cache and whose upstream fetch succeeded.
PageFetched ==
    /\ Done /\ PageCall /\ ret.kind = "ok" /\ Missed

\* The key (page, per_page) of the call, and the page the upstream answered
\* with.
KeyOfCall ==
    "page:" \o ToString(call.page) \o ":per:" \o ToString(call.per_page)
PageAnswered == Concat(OkGets)

\* Every request of the call asked for its page and its page size, and one of
\* them was answered with a page.
OnePageRequested ==
    /\ \A i \in 1..Len(Gets) :
          Gets[i].page = call.page /\ Gets[i].per_page = call.per_page
    /\ Len(OkGets) = 1

\* C13 as stated: after a fetch_page call that missed the cache and whose
\* upstream fetch succeeded, an empty page included, the cache holds under
\* (page, per_page) exactly the records the upstream answered with, stored by
\* this call, the call returned them, and one page was requested.
C13_PageCachedVerbatimAnyPage ==
    PageFetched =>
        /\ OnePageRequested
        /\ heap[ret.ref] = PageAnswered
        /\ KeyOfCall \in DOMAIN cache
        /\ heap[cache[KeyOfCall].ref] = PageAnswered
        /\ cache[KeyOfCall].ts >= call.start

\* C13 amended: the same for a page that is not empty; after an empty page
\* the call returns an empty list and the cache holds no entry under
\* (page, per_page).
C13_PageCachedVerbatim ==
    PageFetched =>
        /\ OnePageRequested
        /\ heap[ret.ref] = PageAnswered
        /\ PageAnswered # <<>> =>
              /\ KeyOfCall \in DOMAIN cache
              /\ heap[cache[KeyOfCall].ref] = PageAnswered
              /\ cache[KeyOfCall].ts >= call.start
              /\ \A k \in DOMAIN cache :
                    k # KeyOfCall => (k \in DOMAIN call.cache0
                                       /\ cache[k] = call.cache0[k])
        /\ PageAnswered = <<>> =>
              /\ KeyOfCall \notin DOMAIN cache
              /\ cache = Drop(call.cache0, KeyOfCall)

\* Page 2 of size PER_PAGE fetched after a retry and cached beside the entry
\* of another page.
C13_Witness ==
    /\ PageFetched
    /\ call.page = 2
    /\ Len(Gets) = 2
    /\ Len(PageAnswered) = PER_PAGE
    /\ Cardinality(DOMAIN cache) = 2

\* An empty page fetched while an expired entry was held under the key.
C13_WitnessEmptyPage ==
    /\ PageFetched
    /\ PageAnswered = <<>>
    /\ KeyOfCall \in DOMAIN call.cache0

-----------------------------------------------------------------------------
(* C14 *)

\* A call that ended in an HTTPException: 400, 429, the upstream's status, 500.
CallFailed == Done /\ call.kind \in {"page", "top"} /\ ret.kind = "err"

\* C14 as stated: a call that failed left the cache as it found it and
\* returned nothing.
C14_FailedCallLeavesCacheUnchanged ==
    CallFailed =>
        /\ cache = call.cache0
        /\ ret.ref = 0

\* C14 amended: a call that failed created no entry and changed none, entry
\* or list; the one entry it may have removed is the entry under its own key,
\* expired when the call looked it up; it returned nothing, and after a
\* failed fetch_top no entry is held under the top key.
C14_FailedCallCreatesNoEntry ==
    CallFailed =>
        /\ \A k \in DOMAIN cache :
              /\ k \in DOMAIN call.cache0
              /\ cache[k] = call.cache0[k]
              /\ heap[cache[k].ref] = stored[k]
        /\ \A k \in (DOMAIN call.cache0) \ (DOMAIN cache) :
              /\ k = call.key
              /\ call.looked
              /\ call.start - call.cache0[k].ts > CRYPTO_CACHE_TTL
        /\ ~call.looked => cache = call.cache0
        /\ ret.ref = 0
        /\ TopCall => TopKey \notin DOMAIN cache

\* fetch_top failed on its second page, after a first page of records, while
\* the cache held an entry of fetch_page.
C14_Witness ==
    /\ CallFailed /\ TopCall
    /\ page = 2
    /\ all_coins # <<>>
    /\ cache # <<>>

\* A failed call whose lookup removed the expired entry under its key.
C14_WitnessPurged ==
    /\ CallFailed
    /\ call.key \in DOMAIN call.cache0
    /\ call.key \notin DOMAIN cache

-----------------------------------------------------------------------------
(* C15 *)

Transformed == coin # NoResult
Present(k) == raw[k].st = "val"
Missing(k) == raw[k].st = "absent"

\* The keys of a raw record whose values go to an Optional field, with the
\* name of that field.
OptionalKeys ==
    {<<"market_cap_rank", "rank">>, <<"current_price", "price_usd">>,
     <<"market_cap", "market_cap_usd">>,
     <<"price_change_percentage_24h", "change_24h_pct">>,
     <<"total_volume", "total_volume_usd">>,
     <<"last_updated", "last_updated">>, <<"image", "image_url">>}

\* Every key of the record is absent or carries a value (none is null).
NoNullField == \A k \in DOMAIN raw : raw[k].st # "null"

\* C15: for a record each of whose fields is absent or present with a value,
\* transform_coin_data returns a coin without failing; an absent symbol, id or
\* name gives the empty string and an absent optional field gives null; a
\* present field goes to its canonical name with its value, the symbol in
\* upper case.
C15_NormalizationTotalOnMissingFields ==
    (Transformed /\ NoNullField) =>
        /\ coin.ok
        /\ Missing("symbol") => coin.coin.symbol = <<>>
        /\ Missing("id") => coin.coin.id = ""
        /\ Missing("name") => coin.coin.name = ""
        /\ Present("symbol") => coin.coin.symbol = Upper(raw["symbol"].v)
        /\ raw["symbol"] = Val(<<"b", "t", "c">>) =>
              coin.coin.symbol = <<"B", "T", "C">>
        /\ Present("id") => coin.coin.id = raw["id"].v
        /\ Present("name") => coin.coin.name = raw["name"].v
        /\ \A kf \in OptionalKeys :
              /\ Missing(kf[1]) => coin.coin[kf[2]].null
              /\ Present(kf[1]) => coin.coin[kf[2]] = Some(raw[kf[1]].v)

\* The record without any field, normalized.
C15_Witness ==
    /\ Transformed
    /\ \A k \in DOMAIN raw : Missing(k)
    /\ coin.ok
    /\ coin.coin = NoCoin

\* A record with some fields and without others, normalized.
C15_WitnessSubset ==
    /\ Transformed /\ NoNullField
    /\ Present("symbol") /\ Missing("id") /\ Present("current_price")
    /\ Missing("market_cap_rank") /\ Present("image")
    /\ coin.ok

-----------------------------------------------------------------------------
(* C16 *)

\* What the upstream gives under key k when it gives a value, else dflt.
GivenOr(k, dflt) == IF Present(k) THEN raw[k].v ELSE dflt

\* C16: for every raw record, symbol, id and name each absent, null or a
\* string, transform_coin_data returns a coin whose symbol is the given symbol
\* in upper case, and whose id and name are the given strings, the empty
\* string standing in where the upstream gives no value.
C16_CanonicalCoinInvariant ==
    Transformed =>
        /\ coin.ok
        /\ coin.coin.symbol = Upper(GivenOr("symbol", <<>>))
        /\ raw["symbol"] = Val(<<"E", "t", "h">>) =>
              coin.coin.symbol = <<"E", "T", "H">>
        /\ coin.coin.id = GivenOr("id", "")
        /\ coin.coin.name = GivenOr("name", "")

-----------------------------------------------------------------------------
(* C17 *)

\* The raw records the response of the request is built from: the fetched
\* page, or the first `limit` of the fetched coins.
BuiltFrom ==
    IF req.kind = "top" THEN LimitTo(raw_coins, req.limit) ELSE raw_coins

\* C17: whenever the fetch of a valid request of either endpoint returned
\* records, the response carries one coin per raw record it is built from, in
\* their order, each the normalization of its record applied once.
C17_NormalizedExactlyOnce ==
    (Responded /\ (PageRequest \/ TopRequest) /\ raw_coins # <<>>) =>
        /\ resp.status = 200
        /\ Len(resp.coins) = Len(BuiltFrom)
        /\ \A i \in 1..Len(BuiltFrom) : resp.coins[i] = Normalized(BuiltFrom[i])

-----------------------------------------------------------------------------
(* C18 *)

\* C18: GET /cryptos/top/{limit} with 1 <= limit <= 1000 whose fetch returned
\* at least `limit` coins answers 200 with exactly `limit` coins, total_count
\* = limit, the coins being the first `limit` fetched records in order.
C18_TopEndpoint ==
    (Responded /\ TopRequest /\ Len(raw_coins) >= req.limit) =>
        /\ resp.status = 200
        /\ Len(resp.coins) = req.limit
        /\ resp.total_count = req.limit
        /\ resp.coins = NormalizedAll(SubSeq(raw_coins, 1, req.limit))
        /\ resp.coins[1].rank = Some(1)

-----------------------------------------------------------------------------
(* C19 *)

\* C19: GET /cryptos with valid page and per_page whose fetch returned a
\* non-empty page answers 200, echoes page and per_page, and carries one
\* normalized coin per fetched record in the fetched order, the first being
\* the record of rank (page - 1) * per_page + 1.
C19_PaginatedEndpoint ==
    (Responded /\ PageRequest /\ raw_coins # <<>>) =>
        /\ resp.status = 200
        /\ resp.page = req.page
        /\ resp.per_page = req.per_page
        /\ Len(resp.coins) = Len(raw_coins)
        /\ resp.total_count = Len(raw_coins)
        /\ \A i \in 1..Len(raw_coins) :
              /\ resp.coins[i] = Normalized(raw_coins[i])
              /\ resp.coins[i].rank = Some((req.page - 1) * req.per_page + i)

\* Page 2 of size PER_PAGE, full: the first coin has rank PER_PAGE + 1.
C19_Witness ==
    /\ Responded /\ PageRequest
    /\ req.page = 2
    /\ Len(raw_coins) = PER_PAGE
    /\ resp.status = 200
    /\ resp.coins[1].rank = Some(PER_PAGE + 1)
    /\ resp.coins[1].symbol = <<"C">> \o Digits(PER_PAGE + 1)

-----------------------------------------------------------------------------
(* C20 *)

\* The fetch of the request ended on an empty page and returned no record: the
\* single page of GET /cryptos, or the first page of GET /cryptos/top.
FetchedNothing ==
    /\ Responded /\ (PageRequest \/ TopRequest)
    /\ log # <<>>
    /\ IsPageOk(log[Len(log)]) /\ log[Len(log)].n = 0
    /\ Len(OkGets) = 1

\* C20: a request whose fetch yields zero records is answered 404 with the
\* "no data" detail of its endpoint; the fetch returned an empty sequence,
\* nothing was raised by it.
C20_NoData ==
    FetchedNothing =>
        /\ raw_coins = <<>>
        /\ resp.status = 404
        /\ resp.status \notin {429, 500}
        /\ req.kind = "cryptos" => resp.detail = NoDataForPage.detail
        /\ req.kind = "top" => resp.detail = NoData.detail
        /\ resp.coins = <<>>

\* GET /cryptos/top whose first page came back empty after a retry.
C20_Witness ==
    /\ FetchedNothing /\ TopRequest
    /\ Len(log) > 1
    /\ resp.status = 404

\* GET /cryptos whose page came back empty.
C20_WitnessPage ==
    /\ FetchedNothing /\ PageRequest
    /\ resp.status = 404

-----------------------------------------------------------------------------
(* C21 *)

InvalidLimit == req.kind = "top" /\ (req.limit <= 0 \/ req.limit > 1000)

\* C21: GET /cryptos/top/{limit} with limit <= 0 or limit > 1000 is answered
\* 400 at once: no upstream request, no attempt, no access to the cache.
C21_InvalidLimitRejected ==
    InvalidLimit =>
        /\ Responded
        /\ resp.status = 400
        /\ resp.detail = "Limit must be between 1 and 1000"
        /\ log = <<>>
        /\ raw_coins = <<>>
        /\ cache = <<>> /\ call = NoCall

\* Limit 0 refused after a request that was served.
C21_Witness ==
    /\ InvalidLimit /\ Responded
    /\ req.limit = 0
    /\ resp.status = 400
    /\ req.prevTop.valid

\* Limit 1001 refused.
C21_WitnessAbove ==
    /\ InvalidLimit /\ Responded
    /\ req.limit = 1001
    /\ resp.status = 400

-----------------------------------------------------------------------------
(* C22 *)

\* The requests of the current request of main.py for the page it is at.
ReqPage == IF req.kind = "top" THEN page ELSE req.page
LastGet == Gets[Len(Gets)]

\* The fetch ended because the upstream answered 429 to the last allowed
\* attempt for a page.
RateLimitPersisted ==
    /\ Responded
    /\ Gets # <<>>
    /\ LastGet.status = 429
    /\ Len(GetsOf(ReqPage)) = 3

\* C22: a request whose fetch ended on a 429 at the last attempt is answered
\* 429 with the rate-limit detail, not 500; and a response has status 429
\* only then: not after another upstream status, a network failure, invalid
\* arguments or an empty result.
C22_RateLimitSurfacedDistinctly ==
    /\ RateLimitPersisted =>
          /\ resp.status = 429
          /\ resp.detail = RateLimitExceeded.detail
    /\ (Responded /\ resp.status = 429) => RateLimitPersisted
    /\ (Responded /\ Gets # <<>> /\ LastGet.status \notin {200, 429}) =>
          resp.status # 429

\* GET /cryptos/top answered 429 for a rate limit met on its second page.
C22_Witness ==
    /\ RateLimitPersisted
    /\ req.kind = "top" /\ page = 2
    /\ resp.status = 429

-----------------------------------------------------------------------------
(* C23 *)

\* The pops that removed an entry.
Removals == {n \in 1..Len(ops) : ops[n].op = "pop" /\ ops[n].entry # NoEntry}

\* C23: a _cache_get that found the entry of its key stale never removes a
\* fresh entry that a concurrent _cache_set stored for the key after the get
\* read it: whatever its pop removes is stale by the get's own clock.
C23_GetRemovesOnlyTheStaleEntry ==
    \A n \in Removals : Expired(ops[n].at, ops[n].entry.ts)

-----------------------------------------------------------------------------
(* C24 *)

\* What _cache holds under k, NoEntry when it holds nothing.
EntryAt(c, k) == IF k \in DOMAIN c THEN c[k] ELSE NoEntry

\* The thread that took the step was working on key k.
StepOnKey(k) == \E i \in Threads : thr'[i] # thr[i] /\ thr[i].key = k

\* Page arguments whose digits run together when the separators are left out.
KeyArgs == {1, 2, 11, 12} \X {1, 2, 12, MAX_PER_PAGE}

KeysPairwiseDistinct ==
    /\ \A a, b \in KeyArgs :
          a # b =>
              "page:" \o ToString(a[1]) \o ":per:" \o ToString(a[2])
                  # "page:" \o ToString(b[1]) \o ":per:" \o ToString(b[2])
    /\ \A a \in KeyArgs :
          "page:" \o ToString(a[1]) \o ":per:" \o ToString(a[2])
              # "top:" \o ToString(MAX_COINS)

\* Thread i is inside a fetch function.
InCall(i) == thr[i].pc \notin {"idle", "done"}

\* The calls two threads are in differ only if their keys do.
ThreadKeysDistinct ==
    \A i, j \in Threads :
        (/\ InCall(i) /\ InCall(j)
         /\ <<thr[i].kind, thr[i].page, thr[i].per_page>>
                # <<thr[j].kind, thr[j].page, thr[j].per_page>>)
        => thr[i].key # thr[j].key

\* C24: under every interleaving of concurrent calls a step changes _cache
\* only under the key of the thread that takes it (a lookup, the purge of a
\* stale entry and a store leave every other key's entry as it was), and
\* distinct Top / Page requests have distinct keys.
C24_IndependentKeys ==
    [][/\ \A k \in (DOMAIN cache) \cup (DOMAIN cache') :
             EntryAt(cache, k) # EntryAt(cache', k) => StepOnKey(k)
       /\ ThreadKeysDistinct'
       /\ KeysPairwiseDistinct]_vars

LastOp == ops[Len(ops)]

\* A stale entry was just purged while another key held an entry.
C24_Witness ==
    /\ ops # <<>>
    /\ LastOp.op = "pop"
    /\ LastOp.entry # NoEntry
    /\ LastOp.key \notin DOMAIN cache
    /\ cache # <<>>

\* Two threads were in the aggregate fetch and in the fetch of a page at the
\* same time, and the cache holds what each stored.
C24_WitnessBothFunctions ==
    /\ events = 2
    /\ Len(ops) = 2
    /\ ops[1].th # ops[2].th
    /\ {ops[1].key, ops[2].key} = {TopKey, PageKey(1, PER_PAGE)}
    /\ \A n \in 1..2 : ops[n].op = "set" /\ cache[ops[n].key] = ops[n].entry

-----------------------------------------------------------------------------
(* C25 *)

\* The stores of two threads under one key, in the order <<m, n>> they came
\* in, with no write to the key after the second.
StorePairs ==
    {mn \in (1..Len(ops)) \X (1..Len(ops)) :
        /\ mn[1] < mn[2]
        /\ ops[mn[1]].op = "set" /\ ops[mn[2]].op = "set"
        /\ ops[mn[1]].th # ops[mn[2]].th
        /\ ops[mn[1]].key = ops[mn[2]].key
        /\ \A x \in (mn[2] + 1)..Len(ops) : ops[x].key # ops[mn[2]].key}

\* The list thread i is about to store is one it fetched itself: the cache
\* does not hold it, and no other thread has it.
OwnList(i) ==
    /\ thr[i].ref \in DOMAIN heap
    /\ \A k \in DOMAIN cache : cache[k].ref # thr[i].ref
    /\ \A j \in Threads \ {i} : thr[i].ref \notin {thr[j].ref, thr[j].ret.ref}

\* C25: two concurrent calls for one key that both miss the cache each make
\* their own upstream fetch (no coalescing), and when both have stored, the
\* entry of the key is the list and the timestamp of the call whose store
\* came last.
C25_LastWriteWins ==
    /\ \A i \in Threads : thr[i].pc = "set_store" => OwnList(i)
    /\ \A mn \in StorePairs : cache[ops[mn[2]].key] = ops[mn[2]].entry

\* Both calls entered before either stored, with no time passing, and the
\* thread that entered first stored last.
C25_Witness ==
    /\ StorePairs # {}
    /\ events = 2
    /\ Len(ops) = 2
    /\ now = 0
    /\ LastOp.th = 1

\* The store that came last carries the older timestamp.
C25_WitnessOlderStamp ==
    \E mn \in StorePairs :
        /\ ops[mn[1]].entry.ts > ops[mn[2]].entry.ts
        /\ events = 2

-----------------------------------------------------------------------------
(* C26 *)

\* The request at position j of the log is the first one for its page.
FirstRequestOfPage(j) ==
    /\ IsGet(log[j])
    /\ \A h \in 1..(j - 1) : IsGet(log[h]) => log[h].page # log[j].page

\* C26: within one fetch_top call the pages requested are 1, 2, 3, ... with
\* no gap: the first request is for page 1; after a failed attempt the next
\* request is for the same page; after a page answered with records the next
\* request is for the following page, first made right after the inter-page
\* delay that follows that answer; nothing is requested after an empty page,
\* and no page that was answered is requested again.
C26_PagesStrictlySequential ==
    TopCall =>
        /\ Gets # <<>> => Gets[1].page = 1
        /\ \A i \in 1..(Len(Gets) - 1) :
              IF Gets[i].status = 200
              THEN Gets[i].n > 0 /\ Gets[i + 1].page = Gets[i].page + 1
              ELSE Gets[i + 1].page = Gets[i].page
        /\ \A i, j \in 1..Len(Gets) :
              (i < j /\ Gets[i].status = 200) => Gets[j].page > Gets[i].page
        /\ \A j \in 1..Len(log) :
              (FirstRequestOfPage(j) /\ log[j].page > 1) =>
                  /\ j > 2
                  /\ log[j - 1] = SleepEvent(log[j].page - 1, REQUEST_DELAY)
                  /\ IsPageOk(log[j - 2])
                  /\ log[j - 2].page = log[j].page - 1
                  /\ log[j - 2].n > 0

\* Pages 1, 2 and 3 were requested, page 2 twice.
C26_Witness ==
    /\ TopCall /\ Done
    /\ Len(GetsOf(1)) = 1 /\ Len(GetsOf(2)) = 2 /\ Len(GetsOf(3)) = 1
    /\ ret.kind = "ok"

-----------------------------------------------------------------------------
(* C27 *)

\* The error fetch_top raises for an attempt answered with status s
\* (0: no HTTP answer).
ErrorOfStatus(s) ==
    IF s = 429
    THEN HTTPException(429, "CoinGecko API rate limit exceeded. Please try again later.")
    ELSE IF s = 0
    THEN HTTPException(500, "Failed to fetch data from CoinGecko")
    ELSE HTTPException(s, "str(e)")

TopFailed == TopCall /\ Done /\ ret.kind = "err"

\* C27: fetch_top does not retry across pages.  When it fails, the last
\* upstream request was a failed attempt for the page it was at, the error is
\* the one of that attempt, and no other page was requested after it.  The
\* attempts of each page are counted from the first: while a page is being
\* attempted the counter is the number of requests made for that page, and a
\* call fails for exhaustion only with three requests for the failing page,
\* whatever failed on earlier pages.
C27_NoRetryAcrossPages ==
    /\ TopFailed =>
          /\ Gets # <<>>
          /\ Gets[Len(Gets)].page = page
          /\ Gets[Len(Gets)].status # 200
          /\ ret = ErrorOfStatus(Gets[Len(Gets)].status)
          /\ \A i \in 1..Len(Gets) : Gets[i].page <= page
          /\ Gets[Len(Gets)].status \in {0, 429} => Len(GetsOf(page)) = 3
    /\ (TopCall /\ pc = "attempting") => attempt = Len(GetsOf(page))
    /\ TopCall => \A p \in 1..page : Len(GetsOf(p)) <= 3

\* The call failed on page 2 after page 1 needed three attempts.
C27_Witness ==
    /\ TopFailed
    /\ page = 2
    /\ Len(GetsOf(1)) = 3
    /\ Len(GetsOf(2)) = 1
    /\ ret.status = 404

\* Page 2 is at its second attempt after page 1 needed three.
C27_WitnessFreshCounter ==
    /\ TopCall /\ pc = "attempting"
    /\ page = 2
    /\ Len(GetsOf(1)) = 3
    /\ Len(GetsOf(2)) = 1
    /\ attempt = 1

-----------------------------------------------------------------------------
(* C28 *)

\* What is left of the work of the call in progress: attempts of the page it
\* is at, and for fetch_top the records still missing below the cap.
Variant ==
    IF TopCall
    THEN (MAX_COINS - Len(all_coins)) * 3 + (3 - attempt)
    ELSE 3 - attempt

\* A step of a call in progress ends the call or leaves less work.
StepTowardsEnd ==
    (pc = "attempting" /\ pc' = "attempting") => Variant' < Variant

AttemptsBounded ==
    /\ pc = "attempting" => attempt \in 0..2 /\ Variant > 0
    /\ PageCall => Len(Gets) <= 3
    /\ TopCall =>
          /\ \A i \in 1..Len(Gets) : Gets[i].page \in 1..MAX_COINS
          /\ \A p \in 1..MAX_COINS : Len(GetsOf(p)) <= 3

\* The call ended in a result or in one error of the four kinds.
EndedClassified ==
    Done =>
        \/ ret.kind = "ok" /\ ret.ref \in DOMAIN heap
        \/ /\ ret.kind = "err"
           /\ IF Gets = <<>>
              THEN ret.status = 400
              ELSE ret = ErrorOfStatus(Gets[Len(Gets)].status)

\* C28: whatever the upstream answers to each attempt, a fetch_page call ends
\* after at most 3 upstream attempts and a fetch_top call after at most 3
\* attempts per page and at most MAX_COINS pages, in a returned result or in
\* exactly one classified error: the bounds hold in every state, every step
\* of a call in progress ends it or leaves less work, and a call in progress
\* eventually ends.
C28_Termination ==
    /\ [](AttemptsBounded /\ EndedClassified)
    /\ [][StepTowardsEnd]_vars
    /\ (pc = "attempting") ~> (pc = "done")

\* fetch_top ended with a result after three pages and a retried attempt.
C28_Witness ==
    /\ TopCall /\ Done /\ ret.kind = "ok"
    /\ Len(Gets) = 4
    /\ Gets[Len(Gets)].page = MAX_COINS

\* fetch_page ended in an error after three attempts.
C28_WitnessExhausted ==
    /\ PageCall /\ Done /\ ret.kind = "err"
    /\ Len(Gets) = 3

-----------------------------------------------------------------------------
(* C29 *)

\* The number of the attempt (from 1) that the request at position j of the
\* log is for its page.
AttemptNumber(j) ==
    Cardinality({h \in 1..j : IsGet(log[h]) /\ log[h].page = log[j].page})

IsRateLimited(e) == IsGet(e) /\ e.status = 429

\* C29: the wait after a 429 on attempt number n of a page is RETRY_DELAY * n
\* seconds (15, 30, 45), for every page and whether the earlier attempts of
\* the page met a 429 or a network failure.
C29_LinearBackoff ==
    \A j \in 1..Len(log) :
        IsRateLimited(log[j]) =>
            /\ j < Len(log)
            /\ log[j + 1] = SleepEvent(log[j].page, RETRY_DELAY * AttemptNumber(j))

\* A 429 on the second attempt of page 2, after a network failure, waited 30.
C29_Witness ==
    /\ TopCall
    /\ Len(log) >= 4
    /\ log[Len(log) - 3].status = 0 /\ log[Len(log) - 3].page = 2
    /\ IsRateLimited(log[Len(log) - 1]) /\ log[Len(log) - 1].page = 2
    /\ log[Len(log)].secs = 30

\* Three 429s for one page waited 15, 30 and 45.
C29_WitnessThird ==
    /\ PageCall
    /\ Len(SleepsOf(call.page)) = 3
    /\ \A i \in 1..3 : SleepsOf(call.page)[i].secs = 15 * i
    /\ \A i \in 1..3 : IsRateLimited(Gets[i])

-----------------------------------------------------------------------------
(* C30 *)

\* The wait at position j of the log was made after a failed attempt.
IsRetryWait(j) ==
    /\ IsSleep(log[j])
    /\ j > 1
    /\ IsGet(log[j - 1]) /\ log[j - 1].status # 200

\* C30: every wait after a failed attempt (rate-limit backoff or network
\* delay) is followed by a further attempt for the same page: a call that
\* has ended made no wait after its last attempt.
C30_WaitsOnlyBetweenAttempts ==
    Done =>
        \A j \in 1..Len(log) :
            IsRetryWait(j) =>
                /\ j < Len(log)
                /\ IsGet(log[j + 1])
                /\ log[j + 1].page = log[j].page

-----------------------------------------------------------------------------
(* C31 *)

\* The attempts made for the page the call is at, and their statuses.
CurGets == GetsOf(CurPage)
StatusesOf(gs) == [i \in 1..Len(gs) |-> gs[i].status]

\* The call ended on a retryable failure (429 or no HTTP answer).
EndedOnRetryable ==
    /\ Done /\ ret.kind = "err"
    /\ Gets # <<>>
    /\ Gets[Len(Gets)].status \in {0, 429}

\* C31: 429s and network failures of one page share one budget of three
\* attempts: a page is never requested more than three times, a call still
\* in progress has requested its page fewer than three times, and a call
\* that ends on a retryable failure made exactly three requests for the page
\* and raises the error of the third alone: RateLimitExceeded after a 429,
\* UpstreamUnavailable after a network failure.
C31_SharedAttemptBudget ==
    /\ Len(CurGets) <= 3
    /\ pc = "attempting" => Len(CurGets) < 3
    /\ EndedOnRetryable =>
          /\ Len(CurGets) = 3
          /\ ret = ErrorOfStatus(CurGets[3].status)
          /\ CurGets[3].status = 429 => ret.status = 429
          /\ CurGets[3].status = 0 => ret.status = 500

\* fetch_page met 429, a network failure, 429: RateLimitExceeded.
C31_Witness ==
    /\ PageCall /\ EndedOnRetryable
    /\ StatusesOf(CurGets) = <<429, 0, 429>>
    /\ ret.status = 429

\* fetch_top met a network failure, 429, a network failure on page 1:
\* UpstreamUnavailable.
C31_WitnessNetworkLast ==
    /\ TopCall /\ EndedOnRetryable
    /\ StatusesOf(CurGets) = <<0, 429, 0>>
    /\ ret.status = 500

-----------------------------------------------------------------------------
(* C32 *)

RECURSIVE SumSecs(_)
SumSecs(es) == IF es = <<>> THEN 0 ELSE es[1].secs + SumSecs(Tail(es))

\* The seconds the call has slept.
Slept == SumSecs(log)

\* The call is over and its last request, the second or third for its page
\* after retryable failures, was answered with a page.
Recovered ==
    /\ Done
    /\ Gets # <<>>
    /\ Gets[Len(Gets)].status = 200
    /\ Len(CurGets) \in {2, 3}

\* C32: when the second or third attempt for a page succeeds after 429s or
\* network failures, no error is raised and the answer of that attempt is
\* handled as the answer of a first attempt is: fetch_page returns it, and
\* stores it with the time of its arrival unless it is empty; fetch_top goes
\* on with it and returns and stores the pages answered, in order, up to
\* MAX_COINS records.
C32_RecoveryAfterRetry ==
    Recovered =>
        /\ ret.kind = "ok"
        /\ PageCall =>
              /\ heap[ret.ref] =
                     UpstreamPage(call.page, call.per_page, Gets[Len(Gets)].n)
              /\ IF Gets[Len(Gets)].n = 0
                 THEN call.key \notin DOMAIN cache
                 ELSE /\ call.key \in DOMAIN cache
                      /\ cache[call.key] = [ts |-> call.start + Slept, ref |-> ret.ref]
        /\ TopCall =>
              /\ heap[ret.ref] = FirstN(Concat(OkGets), MAX_COINS)
              /\ call.key \in DOMAIN cache
              /\ cache[call.key] = [ts |-> call.start + Slept, ref |-> ret.ref]

\* fetch_page answered on its third attempt, after a 429 and a network
\* failure, and the page was stored.
C32_Witness ==
    /\ Recovered /\ PageCall
    /\ StatusesOf(CurGets) = <<429, 0, 200>>
    /\ Gets[3].n > 0
    /\ call.key \in DOMAIN cache

\* fetch_top answered on the second attempt for its second page.
C32_WitnessTop ==
    /\ Recovered /\ TopCall
    /\ CurPage = 2
    /\ Len(CurGets) = 2
    /\ Len(heap[ret.ref]) = MAX_COINS

-----------------------------------------------------------------------------
(* C33 *)

\* The call was served from the cache.
Hit == Done /\ call.looked /\ log = <<>> /\ ret.kind = "ok"

\* C33: expiration does not slide.  A call served from the cache leaves the
\* entry, timestamp included, as it found it; the value it returns was
\* stored at most CRYPTO_CACHE_TTL seconds before the lookup, and the
\* timestamp of a page's entry is the time of the upstream fetch that
\* produced it, however many hits came in between.
C33_NoSlidingExpiration ==
    /\ Hit =>
          /\ call.key \in DOMAIN call.cache0
          /\ call.key \in DOMAIN cache
          /\ cache[call.key] = call.cache0[call.key]
          /\ ret.ref = cache[call.key].ref
          /\ call.start - cache[call.key].ts \in 0..60
          /\ PageCall => call.prevFetch.at = cache[call.key].ts
    /\ \A k \in DOMAIN cache :
          k \in DOMAIN fetched => fetched[k].at = cache[k].ts

\* The second hit on an entry, 60 seconds after it was stored.
C33_Witness ==
    /\ Hit
    /\ events = 4
    /\ call.start - cache[call.key].ts = 60
    /\ now = call.start

-----------------------------------------------------------------------------
(* C34 *)

\* The aggregate key held an entry no older than the TTL when the call
\* looked it up.
TopEntryLive ==
    /\ call.key \in DOMAIN call.cache0
    /\ call.start - call.cache0[call.key].ts <= 60

\* The last upstream fetch for the page's key was answered with an empty page.
AfterEmptyPage == HasPrev /\ call.prevFetch.n = 0

\* C34: fetch_top stores its aggregate whenever it ends without an error, an
\* empty aggregate included, so a fetch_top call that finds the entry within
\* the TTL returns the stored sequence (the empty one too) with no upstream
\* request; fetch_page after an empty page finds no entry and goes to the
\* upstream again.
C34_EmptyAggregateCached ==
    /\ (TopCall /\ Done /\ ret.kind = "ok") =>
          /\ call.key \in DOMAIN cache
          /\ heap[cache[call.key].ref] = heap[ret.ref]
          /\ stored[call.key] = heap[ret.ref]
    /\ (TopCall /\ TopEntryLive) =>
          /\ Hit
          /\ ret.ref = call.cache0[call.key].ref
    /\ (PageCall /\ AfterEmptyPage) =>
          /\ call.key \notin DOMAIN call.cache0
          /\ ~Hit
          /\ pc = "attempting" \/ Missed

\* fetch_top served the empty aggregate the call before stored.
C34_Witness ==
    /\ TopCall /\ TopEntryLive /\ Hit
    /\ heap[ret.ref] = <<>>
    /\ events = 2

\* fetch_page asked the upstream again right after an empty page.
C34_WitnessPage ==
    /\ PageCall /\ AfterEmptyPage
    /\ PrevAge = 0
    /\ Missed

-----------------------------------------------------------------------------
(* C35 *)

\* main.py's fetch function has been called after the one of
\* crypto_service.py.
MainCalled == svc # NoSvc /\ req.kind # "none"

\* The outcome of main.py's fetch function, seen from its handler: the list
\* handed to the handler, or the HTTPException that went through it.
MainOutcome ==
    IF Gets # <<>> /\ Gets[Len(Gets)].status = 200
    THEN Outcome("ok", raw_coins, 0, "")
    ELSE Outcome("err", <<>>, resp.status, resp.detail)

\* C35: on a cold cache the fetch functions of main.py and those of
\* crypto_service.py behave alike.  Given the upstream answers
\* crypto_service.py's function got, main.py's function makes the requests
\* and waits that one made, in the same order; it ends when that one ended,
\* neither before the last answer nor asking for more; and it ends in the
\* same outcome, list or error.
C35_MainFetchEquivalentOnColdCache ==
    MainCalled =>
        /\ IsPrefixOf(log, svc.log)
        /\ Done <=> Answers(log) = Answers(svc.log)
        /\ Done =>
              /\ log = svc.log
              /\ MainOutcome = svc.out

\* Both aggregate fetches went through two pages with a retried 429 and
\* returned the same list.
C35_Witness ==
    /\ MainCalled /\ Done
    /\ svc.kind = "top"
    /\ Answers(log) = Answers(svc.log)
    /\ Len(log) >= 5
    /\ svc.out.kind = "ok" /\ Len(svc.out.coins) = MAX_COINS
    /\ \E i \in 1..Len(log) : IsRateLimited(log[i])

\* Both page fetches gave up after three failed attempts.
C35_WitnessError ==
    /\ MainCalled /\ Done
    /\ svc.kind = "page"
    /\ Answers(log) = Answers(svc.log)
    /\ Len(Gets) = 3
    /\ svc.out.kind = "err"

-----------------------------------------------------------------------------
(* C36 *)

\* GET /cryptos answered with a page.
PageServed == Responded /\ PageRequest /\ resp.status = 200

\* C36: a GET /cryptos request with valid arguments whose fetch returned
\* records is answered 200 with total_pages = ceil(1000 / per_page), the
\* least number of pages of that size holding 1000 records; has_prev true
\* exactly for page > 1; has_next true exactly for page < total_pages; and
\* total_count the number of coins in the page returned.
C36_PaginationMetadata ==
    /\ (Responded /\ PageRequest /\ raw_coins # <<>>) => resp.status = 200
    /\ PageServed =>
          /\ resp.total_pages * req.per_page >= 1000
          /\ (resp.total_pages - 1) * req.per_page < 1000
          /\ resp.has_prev <=> req.page > 1
          /\ resp.has_next <=> req.page < resp.total_pages
          /\ resp.total_count = Len(resp.coins)
          /\ resp.total_count = Len(raw_coins)

\* The last page of pages of 3: page 334, with a page before and none after.
C36_Witness ==
    /\ PageServed
    /\ req.page = 334 /\ req.per_page = 3
    /\ resp.total_pages = 334
    /\ resp.has_prev /\ ~resp.has_next
    /\ resp.total_count = 3

\* The first page of pages of 250: 4 pages, one after and none before.
C36_WitnessFirst ==
    /\ PageServed
    /\ req.page = 1 /\ req.per_page = 250
    /\ resp.total_pages = 4
    /\ resp.has_next /\ ~resp.has_prev

====
